---- MODULE Spec2Model ----
(***************************************************************************)
(* A model of the RoturTW avatar server: the avatar and banner handlers,  *)
(* their caches (transformCache, roundedCache) and the upload handler on  *)
(* one side, and the GIF rounding algorithm roundGIF on the other.        *)
(*                                                                         *)
(* Strings are sequences of one-character strings, so that concatenation, *)
(* strconv.Atoi, strings.TrimSuffix and fmt.Sprintf("%d") are computed as *)
(* the Go code computes them.                                             *)
(***************************************************************************)
EXTENDS Integers, Sequences, FiniteSets, TLC

VARIABLES
  files,           \* avatar directory of the user: extension -> file or NoFile
  banner,          \* the stored banner file of the user, or NoFile
  transformCache,  \* pfps.go: transformCache map, key -> CachedImage
  roundedCache,    \* main: roundedCache map, key -> CachedImage
  now,             \* wall clock, in seconds
  pc,              \* per worker: position inside the handler it runs
  loc,             \* per worker: the handler's local variables
  resp,            \* the last response sent by any worker
  first,           \* history: request signature -> its first response (validator, body)
  lastOk,          \* history: image id of the latest upload that returned success
  nextImg,         \* next fresh image id: 0 is the default image, 1 the stored avatar
  nreq,            \* number of requests started so far
  nticks,          \* number of clock steps so far
  gif,             \* roundGIF: the source animation (src) and requested radius
  rg,              \* roundGIF: its local state (position, compositor, prev, dst)
  resizedCache,    \* main: resizedCache map, key -> CachedImage
  sc,              \* calls of roundCorners and resizeImage: inputs and results
  fn,              \* a step of roundGIF or isPixelInRoundedRect on given inputs
  lk               \* cacheMutex and the position of each worker around it

hvars == <<files, banner, transformCache, roundedCache, now, pc, loc, resp,
           first, lastOk, nextImg, nreq, nticks>>
gvars == <<gif, rg>>
svars == <<resizedCache, sc>>
vars == <<files, banner, transformCache, roundedCache, now, pc, loc, resp,
          first, lastOk, nextImg, nreq, nticks, gif, rg,
          resizedCache, sc, fn, lk>>

----------------------------------------------------------------------------
(* Bounds of the model *)

NumWorkers == 2
MaxReq == 2
MaxUploads == 1
MaxTicks == 1
MaxSeqTicks == 1

(* Program constants *)

cacheTimeout == 3600
MaxAvatarSize == 256
StoredSize == 256

----------------------------------------------------------------------------
(* Strings *)

Digits == <<"0", "1", "2", "3", "4", "5", "6", "7", "8", "9">>

IsDigit(ch) == \E d \in 1..10 : Digits[d] = ch

DigitVal(ch) == (CHOOSE d \in 1..10 : Digits[d] = ch) - 1

HasSuffix(s, suf) ==
  /\ Len(s) >= Len(suf)
  /\ SubSeq(s, Len(s) - Len(suf) + 1, Len(s)) = suf

TrimSuffix(s, suf) ==
  IF HasSuffix(s, suf) THEN SubSeq(s, 1, Len(s) - Len(suf)) ELSE s

RECURSIVE DigitsValue(_)
DigitsValue(s) ==
  IF s = <<>> THEN 0
  ELSE DigitsValue(SubSeq(s, 1, Len(s) - 1)) * 10 + DigitVal(s[Len(s)])

\* strconv.Atoi: an optional sign followed by at least one digit and nothing else.
Atoi(s) ==
  LET signed == s # <<>> /\ s[1] \in {"-", "+"}
      body   == IF signed THEN Tail(s) ELSE s
  IN  IF body = <<>> \/ \E i \in 1..Len(body) : ~IsDigit(body[i])
      THEN [ok |-> FALSE, val |-> 0]
      ELSE [ok |-> TRUE,
            val |-> IF signed /\ s[1] = "-" THEN 0 - DigitsValue(body)
                    ELSE DigitsValue(body)]

\* fmt.Sprintf("%d", n) for n >= 0
RECURSIVE Itoa(_)
Itoa(n) ==
  IF n < 10 THEN <<Digits[n + 1]>>
  ELSE Itoa(n \div 10) \o <<Digits[(n % 10) + 1]>>

\* strings.Join(parts, sep)
RECURSIVE Join(_, _)
Join(parts, sep) ==
  IF parts = <<>> THEN <<>>
  ELSE IF Len(parts) = 1 THEN parts[1]
  ELSE parts[1] \o sep \o Join(Tail(parts), sep)

\* fmt.Sprintf(`"%s"`, s)
Quote(s) == <<"\"">> \o s \o <<"\"">>

StrSize == <<"s", "i", "z", "e", "=">>
StrRadius == <<"r", "a", "d", "i", "u", "s", "=">>
StrPx == <<"p", "x">>
StrDash == <<"-">>

----------------------------------------------------------------------------
(* Files and image bytes *)

Workers == 1..NumWorkers
Exts == <<"gif", "jpg">>

Username == <<"u">>
defaultImageEtag == <<"d", "e", "f">>

NoFile == [present |-> FALSE, img |-> 0, complete |-> FALSE, mtime |-> 0]

\* Image bytes, as the term that produced them: the source image (0 is the
\* default image), whether the source bytes are a whole file or a truncated
\* one, the side of the (square) picture, and the transforms applied in order.
Bytes(src, complete) ==
  [src |-> src, complete |-> complete, dim |-> StoredSize, ops |-> <<>>]

NoBody == [src |-> 0 - 1, complete |-> FALSE, dim |-> 0, ops |-> <<>>]

defaultImageContent == Bytes(0, TRUE)

Min(a, b) == IF a < b THEN a ELSE b

\* image.Decode / gif.DecodeAll succeed on whole files and on what the
\* server's own encoders wrote, and fail on a truncated file.
Decodes(data) == data.complete \/ data.ops # <<>>

\* an applied transform: its name, its argument, and which of the encodings
\* the transform can produce for that input was produced (0 when it has one)
Applied(data, name, arg, variant) ==
  [data EXCEPT !.ops = Append(@, <<name, arg, variant>>)]

----------------------------------------------------------------------------
(* getAvatarMetadata, pfps.go *)

MetaOf(ext, f) ==
  [err |-> FALSE, path |-> ext,
   contentType |-> IF ext = "gif" THEN "image/gif" ELSE "image/jpeg",
   etag |-> Username \o StrDash \o Itoa(f.mtime)]

getAvatarMetadata(fs) ==
  IF fs["gif"].present THEN MetaOf("gif", fs["gif"])
  ELSE IF fs["jpg"].present THEN MetaOf("jpg", fs["jpg"])
  ELSE [err |-> TRUE, path |-> "none", contentType |-> "", etag |-> <<>>]

\* the radius modifier before the size modifier
ModifierPartsRadiusFirst(sizeStr, radius) ==
  (IF radius # <<>> THEN << StrRadius \o radius >> ELSE <<>>)
  \o (IF sizeStr # <<>> THEN << StrSize \o sizeStr >> ELSE <<>>)

\* avatarHandler, the modifier string and the cache key
ModifierParts(sizeStr, radius) ==
  (IF sizeStr # <<>> THEN << StrSize \o sizeStr >> ELSE <<>>)
  \o (IF radius # <<>> THEN << StrRadius \o radius >> ELSE <<>>)

Modifier(sizeStr, radius) == Join(ModifierParts(sizeStr, radius), StrDash)

CacheKeyOf(finalEtagBase, sizeStr, radius) ==
  IF Modifier(sizeStr, radius) # <<>>
  THEN finalEtagBase \o StrDash \o Modifier(sizeStr, radius)
  ELSE finalEtagBase

\* the size accepted by avatarHandler: 0 when the parameter is absent or rejected
AcceptedSize(sizeStr) ==
  LET a == Atoi(sizeStr)
  IN  IF sizeStr # <<>> /\ a.ok /\ a.val > 0 /\ a.val <= MaxAvatarSize
      THEN a.val ELSE 0

\* the radius accepted by avatarHandler and bannerHandler: 0 when absent or rejected
AcceptedRadius(radius) ==
  LET a == Atoi(TrimSuffix(radius, StrPx))
  IN  IF radius # <<>> /\ a.ok /\ a.val > 0 THEN a.val ELSE 0

----------------------------------------------------------------------------
(* Pixels, and static images as the decoders and encoders see them *)

\* A colour: v stands for its red, green and blue, a is its alpha (0 or 255)
Colour(v) == [v |-> v, a |-> 255]
Transparent == [v |-> 0, a |-> 0]

Points(w, h) == (0..(w - 1)) \X (0..(h - 1))

\* the right and bottom centres taken one pixel further out
isPixelInRoundedRectOffCentre(x, y, width, height, radius) ==
  LET sq(dx, dy) == dx * dx + dy * dy <= radius * radius
  IN  IF x < radius /\ y < radius
      THEN sq(x - radius, y - radius)
      ELSE IF x >= width - radius /\ y < radius
      THEN sq(x - (width - radius), y - radius)
      ELSE IF x < radius /\ y >= height - radius
      THEN sq(x - radius, y - (height - radius))
      ELSE IF x >= width - radius /\ y >= height - radius
      THEN sq(x - (width - radius), y - (height - radius))
      ELSE TRUE

\* isPixelInRoundedRect, utils.go lines 509-533
isPixelInRoundedRect(x, y, width, height, radius) ==
  LET sq(dx, dy) == dx * dx + dy * dy <= radius * radius
  IN  IF x < radius /\ y < radius
      THEN sq(x - radius, y - radius)
      ELSE IF x >= width - radius /\ y < radius
      THEN sq(x - (width - radius - 1), y - radius)
      ELSE IF x < radius /\ y >= height - radius
      THEN sq(x - radius, y - (height - radius - 1))
      ELSE IF x >= width - radius /\ y >= height - radius
      THEN sq(x - (width - radius - 1), y - (height - radius - 1))
      ELSE TRUE

\* The bytes of a static image, pixel by pixel: fmt is the format the bytes
\* are in ("jpeg", "png", "gif", or "bad" for bytes no decoder accepts), w
\* and h the size and pix the colour of each point as image.Decode gives it
ImageBytes(fmt, w, h, pix) == [fmt |-> fmt, w |-> w, h |-> h, pix |-> pix]

IsPixels(data) == "pix" \in DOMAIN data

\* color.RGBAModel.Convert, used by result.Set: the colour with its channels
\* multiplied by alpha, in 16 bits and cut down to 8.  Go computes
\* (v * 257) * (a * 257) / 65535; 65535 is 255 * 257, so the quotient is that
\* of v * 257 * a by 255
ToRGBA(c) ==
  [v |-> ((c.v * 257 * c.a) \div 255) \div 256, a |-> c.a]

\* a pixel written at half its value
ToNRGBAHalved(c) == [v |-> c.v \div 2, a |-> c.a]

\* how png.Encode writes a pixel of an image.RGBA: the channels divided by
\* alpha again
ToNRGBA(c) ==
  IF c.a = 0 THEN [v |-> 0, a |-> 0]
  ELSE IF c.a = 255 THEN c
  ELSE [v |-> ((c.v * 65535) \div c.a) \div 256, a |-> c.a]

\* the source colour at every pixel
RoundPixelsUnmasked(img, radius) ==
  [w |-> img.w, h |-> img.h,
   pix |-> [pt \in Points(img.w, img.h) |-> ToRGBA(img.pix[pt])]]

\* utils.go lines 287-305: the radius cut to half the height, then the source
\* colour inside the rounded rectangle and color.RGBA{0, 0, 0, 0} outside
RoundPixels(img, radius) ==
  LET r == IF radius > img.h \div 2 THEN img.h \div 2 ELSE radius
  IN  [w |-> img.w, h |-> img.h,
       pix |-> [pt \in Points(img.w, img.h) |->
                  IF isPixelInRoundedRect(pt[1], pt[2], img.w, img.h, r)
                  THEN ToRGBA(img.pix[pt])
                  ELSE [v |-> 0, a |-> 0]]]

\* png.Encode refuses an image without pixels ("invalid image size")
PngEncodes(img) == img.w > 0 /\ img.h > 0

\* png.Encode of an image.RGBA, utils.go line 308
EncodePNG(img) ==
  ImageBytes("png", img.w, img.h,
             [pt \in Points(img.w, img.h) |-> ToNRGBA(img.pix[pt])])

----------------------------------------------------------------------------
(* The transforms, as far as the handlers see them *)

\* resizeGIF: decode, resize every frame to sz x sz, encode
resizeGIF(data, sz) ==
  IF Decodes(data)
  THEN [err |-> FALSE, data |-> [Applied(data, "resizegif", sz, 0) EXCEPT !.dim = sz]]
  ELSE [err |-> TRUE, data |-> data]

\* roundGIF builds the palette of a frame by ranging over a Go map, whose
\* iteration order differs from run to run: the same animation and radius can
\* be encoded with differently ordered palettes, so to different bytes.
PaletteOrders == {1, 2}

\* gif.DecodeAll, roundGIF (radius clamped to half of each side) and
\* gif.EncodeAll; order is the palette order this run produced
RoundGIFBytes(data, radiusInt, order) ==
  IF Decodes(data)
  THEN LET r == Min(radiusInt, data.dim \div 2)
       IN  [err |-> FALSE,
            data |-> Applied(data, "roundgif", r, IF r > 0 THEN order ELSE 0)]
  ELSE [err |-> TRUE, data |-> data]

\* resize.Resize(sz, 0, img) and jpeg.Encode, avatarHandler
ResizeStatic(data, sz) == [Applied(data, "resize", sz, 0) EXCEPT !.dim = sz]

RoundedKey(data, radius) == <<data, radius>>

CacheFresh(entry, t) == t - entry.Timestamp < cacheTimeout

\* image.Decode accepts the bytes
DecodesImage(imageData) ==
  IF IsPixels(imageData) THEN imageData.fmt # "bad" ELSE Decodes(imageData)

\* utils.go lines 287-313: the rounded image as PNG bytes, or the error of
\* png.Encode
RoundEncoded(imageData, radius) ==
  IF IsPixels(imageData)
  THEN LET result == RoundPixels(imageData, radius)
       IN  IF PngEncodes(result)
           THEN [err |-> FALSE, data |-> EncodePNG(result)]
           ELSE [err |-> TRUE, data |-> imageData]
  ELSE [err |-> FALSE,
        data |-> Applied(imageData, "round",
                         Min(radius, imageData.dim \div 2), 0)]

\* the cache with the entry stored under the key
CachePut(cache, cacheKey, entry) ==
  [k \in DOMAIN cache \cup {cacheKey} |->
     IF k = cacheKey THEN entry ELSE cache[k]]

\* a cache that took the input bytes on a failure
AfterFailureStored(cache, cacheKey, imageData, t) ==
  CachePut(cache, cacheKey,
           [Data |-> imageData, ContentType |-> "image/jpeg", Timestamp |-> t])

\* utils.go lines 282-285, 308-312 and 568-579: a failed decode or encode
\* returns before the store
AfterFailure(cache, cacheKey, imageData, t) == cache

\* roundCorners: the result, and roundedCache after the call
roundCorners(imageData, radius, cache, t) ==
  LET cacheKey == RoundedKey(imageData, radius)
  IN  IF cacheKey \in DOMAIN cache /\ CacheFresh(cache[cacheKey], t)
      THEN [err |-> FALSE, data |-> cache[cacheKey].Data,
            contentType |-> cache[cacheKey].ContentType,
            hit |-> TRUE, age |-> t - cache[cacheKey].Timestamp, cache |-> cache]
      ELSE IF ~DecodesImage(imageData) \/ RoundEncoded(imageData, radius).err
      THEN [err |-> TRUE, data |-> imageData, contentType |-> "image/jpeg",
            hit |-> FALSE, age |-> 0,
            cache |-> AfterFailure(cache, cacheKey, imageData, t)]
      ELSE LET resultData == RoundEncoded(imageData, radius).data
               entry == [Data |-> resultData, ContentType |-> "image/png",
                         Timestamp |-> t]
           IN  [err |-> FALSE, data |-> resultData, contentType |-> "image/png",
                hit |-> FALSE, age |-> 0,
                cache |-> CachePut(cache, cacheKey, entry)]

\* resize.Resize(width, height, img, ...): the size of the result.  A width
\* or height of 0 stands for the one that keeps the proportions of img,
\* uint(0.7 + side/scale); an image without pixels is returned as it is.
ResizeDims(width, height, img) ==
  IF img.w <= 0 \/ img.h <= 0 THEN [w |-> img.w, h |-> img.h]
  ELSE [w |-> IF width # 0 THEN width
              ELSE IF height # 0
              THEN (7 * img.h + 10 * img.w * height) \div (10 * img.h)
              ELSE img.w,
        h |-> IF height # 0 THEN height
              ELSE IF width # 0
              THEN (7 * img.w + 10 * img.h * width) \div (10 * img.w)
              ELSE img.h]

\* the pixels of the resized image: each one stands for the source pixels
\* the filter takes it from
Resample(img, dims) ==
  [w |-> dims.w, h |-> dims.h,
   pix |-> [pt \in Points(dims.w, dims.h) |->
              img.pix[<<(pt[1] * img.w) \div dims.w,
                        (pt[2] * img.h) \div dims.h>>]]]

\* jpeg.Encode refuses a side of 65536 pixels or more
JpegEncodes(dims) == dims.w < 65536 /\ dims.h < 65536

\* jpeg.Encode with quality 85: JPEG has no alpha
EncodeJPEG(img) ==
  ImageBytes("jpeg", img.w, img.h,
             [pt \in Points(img.w, img.h) |->
                [v |-> ToRGBA(img.pix[pt]).v, a |-> 255]])

\* resizeImage, utils.go lines 556-592: the result, and resizedCache after
\* the call
resizeImage(imageData, size, cache, t) ==
  LET cacheKey == RoundedKey(imageData, size)
      dims == ResizeDims(size, size, imageData)
  IN  IF cacheKey \in DOMAIN cache /\ CacheFresh(cache[cacheKey], t)
      THEN [err |-> FALSE, data |-> cache[cacheKey].Data, hit |-> TRUE,
            cache |-> cache]
      ELSE IF ~DecodesImage(imageData) \/ ~JpegEncodes(dims)
      THEN [err |-> TRUE, data |-> imageData, hit |-> FALSE,
            cache |-> AfterFailure(cache, cacheKey, imageData, t)]
      ELSE LET result == EncodeJPEG(Resample(imageData, dims))
               entry == [Data |-> result, ContentType |-> "image/jpeg",
                         Timestamp |-> t]
           IN  [err |-> FALSE, data |-> result, hit |-> FALSE,
                cache |-> CachePut(cache, cacheKey, entry)]

\* avatarHandler, pfps.go lines 190-193, on the pixels: resize.Resize with a
\* height of 0 and jpeg.Encode, whose error is dropped
ResizeStaticPixels(img, sz) == EncodeJPEG(Resample(img, ResizeDims(sz, 0, img)))

----------------------------------------------------------------------------
(* Workers, requests and responses *)

IdleLoc ==
  [s |-> <<>>, radius |-> <<>>, clientEtag |-> <<>>, path |-> "none",
   contentType |-> "", finalEtagBase |-> <<>>, metaErr |-> FALSE,
   cacheKey |-> <<>>, imageData |-> NoBody, sig |-> <<>>, repeat |-> FALSE,
   ran |-> {}, age |-> 0, img |-> 0, ext |-> "none", valid |-> FALSE,
   identity |-> <<>>, before |-> <<>>, raced |-> FALSE]

NoResp ==
  [kind |-> "none", status |-> 0, etag |-> <<>>, contentType |-> "",
   body |-> NoBody, hit |-> FALSE, ran |-> {}, age |-> 0, after |-> 0,
   repeat |-> FALSE, expect |-> <<>>, s |-> <<>>, radius |-> <<>>,
   base |-> <<>>, entryS |-> <<>>, entryRadius |-> <<>>, before |-> <<>>,
   raced |-> FALSE]

\* A new request is taken by the idle worker of lowest number (workers are
\* interchangeable).
Free(p) == pc[p] = "idle" /\ \A q \in Workers : q < p => pc[q] # "idle"

\* The response of worker p to the request in loc[p]; the worker becomes idle.
\* For an upload, before is the avatar files as they were when it started;
\* raced tells that the request missed while another request had missed on
\* the same key and had not answered yet.
\* The first successful response to a request signature is remembered.
RespondWith(p, l, r) ==
  LET full == [r EXCEPT !.after = lastOk, !.repeat = l.repeat,
                        !.expect = IF l.repeat THEN first[l.sig].etag ELSE <<>>,
                        !.s = l.s, !.radius = l.radius, !.base = l.identity,
                        !.before = l.before, !.raced = l.raced]
  IN  /\ resp' = full
      /\ pc' = [pc EXCEPT ![p] = "idle"]
      /\ loc' = [loc EXCEPT ![p] = IdleLoc]
      /\ first' = IF r.status \in {200, 304} /\ l.sig # <<>>
                     /\ l.sig \notin DOMAIN first
                  THEN [k \in DOMAIN first \cup {l.sig} |->
                          IF k = l.sig THEN [etag |-> r.etag, status |-> r.status,
                                             body |-> r.body]
                          ELSE first[k]]
                  ELSE first

Respond(p, r) == RespondWith(p, loc[p], r)

NotModified(kind, etag) ==
  [NoResp EXCEPT !.kind = kind, !.status = 304, !.etag = etag]

----------------------------------------------------------------------------
(* avatarHandler, pfps.go *)

\* lines 59-100: parameters, metadata, modifier, the unmodified file, cache key
AvStart(p, sizeStr, radius, revalidate) ==
  /\ Free(p)
  /\ nreq < MaxReq
  /\ nreq' = nreq + 1
  /\ LET meta == getAvatarMetadata(files)
         finalEtagBase == IF meta.err THEN defaultImageEtag ELSE meta.etag
         contentType == IF meta.err THEN "image/jpeg" ELSE meta.contentType
         cacheKey == CacheKeyOf(finalEtagBase, sizeStr, radius)
         clientEtag == IF revalidate THEN Quote(cacheKey) ELSE <<>>
         version == IF meta.err THEN NoFile ELSE files[meta.path]
         sig == <<"avatar", sizeStr, radius, version>>
         l == [IdleLoc EXCEPT !.s = sizeStr, !.radius = radius,
                 !.clientEtag = clientEtag, !.path = meta.path,
                 !.contentType = contentType, !.finalEtagBase = finalEtagBase,
                 !.identity = finalEtagBase,
                 !.metaErr = meta.err, !.cacheKey = cacheKey,
                 !.sig = sig, !.repeat = sig \in DOMAIN first]
     IN  IF Modifier(sizeStr, radius) = <<>> /\ ~meta.err
         THEN /\ loc' = [loc EXCEPT ![p] = IdleLoc]
              /\ pc' = pc
              /\ resp' =
                  (IF clientEtag = Quote(finalEtagBase)
                   THEN [NotModified("avatar", Quote(finalEtagBase))
                           EXCEPT !.after = lastOk, !.base = finalEtagBase]
                   ELSE [NoResp EXCEPT !.kind = "avatar", !.status = 200,
                           !.etag = Quote(finalEtagBase),
                           !.contentType = contentType,
                           !.body = Bytes(version.img, version.complete),
                           !.after = lastOk, !.base = finalEtagBase])
              /\ first' = first
         ELSE /\ loc' = [loc EXCEPT ![p] = l]
              /\ pc' = [pc EXCEPT ![p] = "av_lookup"]
              /\ UNCHANGED <<resp, first>>
  /\ UNCHANGED <<files, banner, transformCache, roundedCache, now, lastOk,
                 nextImg, nticks, gif, rg,
                 resizedCache, sc, fn, lk>>

\* the workers that have missed on cacheKey and have not answered yet
Missing(cacheKey) ==
  { q \in Workers :
      /\ pc[q] \in {"av_read", "av_transform", "av_put", "av_respond"}
      /\ loc[q].cacheKey = cacheKey }

\* lines 102-116: the transformCache lookup
AvLookup(p) ==
  /\ pc[p] = "av_lookup"
  /\ LET l == loc[p]
     IN  IF l.cacheKey \in DOMAIN transformCache
         THEN LET cached == transformCache[l.cacheKey]
              IN  IF l.clientEtag = Quote(l.cacheKey)
                  THEN Respond(p, [NotModified("avatar", Quote(l.cacheKey))
                                     EXCEPT !.hit = TRUE,
                                            !.age = now - cached.putAt,
                                            !.entryS = cached.s,
                                            !.entryRadius = cached.radius])
                  ELSE Respond(p, [NoResp EXCEPT !.kind = "avatar",
                                     !.status = 200,
                                     !.etag = Quote(l.cacheKey),
                                     !.contentType = cached.ContentType,
                                     !.body = cached.Data, !.hit = TRUE,
                                     !.age = now - cached.putAt,
                                     !.entryS = cached.s,
                                     !.entryRadius = cached.radius])
         ELSE /\ pc' = [pc EXCEPT ![p] = "av_read"]
              /\ loc' = [q \in Workers |->
                           IF Missing(l.cacheKey) # {}
                              /\ q \in Missing(l.cacheKey) \cup {p}
                           THEN [loc[q] EXCEPT !.raced = TRUE]
                           ELSE loc[q]]
              /\ UNCHANGED <<resp, first>>
  /\ UNCHANGED <<files, banner, transformCache, roundedCache, now, lastOk,
                 nextImg, nreq, nticks, gif, rg,
                 resizedCache, sc, fn, lk>>

\* lines 118-133: the source bytes, the default image when there is no file
AvRead(p) ==
  /\ pc[p] = "av_read"
  /\ LET l == loc[p]
         f == IF l.metaErr THEN NoFile ELSE files[l.path]
     IN  loc' = [loc EXCEPT ![p] =
           IF l.metaErr
           THEN [l EXCEPT !.imageData = defaultImageContent,
                          !.contentType = "image/jpeg"]
           ELSE IF ~f.present
           THEN [l EXCEPT !.imageData = defaultImageContent,
                          !.contentType = "image/jpeg",
                          !.finalEtagBase = defaultImageEtag]
           ELSE [l EXCEPT !.imageData = Bytes(f.img, f.complete)]]
  /\ pc' = [pc EXCEPT ![p] = "av_transform"]
  /\ UNCHANGED <<files, banner, transformCache, roundedCache, now, resp, first,
                 lastOk, nextImg, nreq, nticks, gif, rg,
                 resizedCache, sc, fn, lk>>

\* lines 137-163: the GIF branch, resizeGIF then roundGIF; an error of either
\* leaves imageData as it was
GifTransform(imageData, sizeStr, radius, order) ==
  LET sz == AcceptedSize(sizeStr)
      resized == resizeGIF(imageData, sz)
      data1 == IF sz > 0 /\ ~resized.err THEN resized.data ELSE imageData
      radiusInt == AcceptedRadius(radius)
      rounded == RoundGIFBytes(data1, radiusInt, order)
      data2 == IF radiusInt > 0 /\ ~rounded.err THEN rounded.data ELSE data1
  IN  [data |-> data2,
       ran |-> (IF sz > 0 THEN {"decode"} ELSE {})
               \cup (IF sz > 0 /\ ~resized.err THEN {"resize"} ELSE {})
               \cup (IF radiusInt > 0 THEN {"decode"} ELSE {})
               \cup (IF radiusInt > 0 /\ ~rounded.err THEN {"round"} ELSE {})]

\* lines 187-208: the static branch after image.Decode succeeded
StaticTransform(imageData, contentType, sizeStr, radius, cache, t) ==
  LET sz == AcceptedSize(sizeStr)
      data1 == IF sz > 0 THEN ResizeStatic(imageData, sz) ELSE imageData
      radiusInt == AcceptedRadius(radius)
      rounded == roundCorners(data1, radiusInt, cache, t)
      useRound == radiusInt > 0 /\ ~rounded.err
  IN  [data |-> IF useRound THEN rounded.data ELSE data1,
       contentType |-> IF useRound THEN rounded.contentType ELSE contentType,
       cache |-> IF radiusInt > 0 THEN rounded.cache ELSE cache,
       age |-> IF useRound THEN rounded.age ELSE 0,
       ran |-> {"decode"}
               \cup (IF sz > 0 THEN {"resize"} ELSE {})
               \cup (IF radiusInt > 0 /\ ~rounded.hit THEN {"decode"} ELSE {})
               \cup (IF useRound /\ ~rounded.hit THEN {"round"} ELSE {})]

\* lines 137-163 and 181-208: the transforms of both branches
AvTransform(p) ==
  /\ pc[p] = "av_transform"
  /\ LET l == loc[p]
     IN  IF l.contentType = "image/gif"
         THEN \E order \in PaletteOrders :
              LET g == GifTransform(l.imageData, l.s, l.radius, order)
              IN  /\ loc' = [loc EXCEPT ![p] =
                       [l EXCEPT !.imageData = g.data, !.ran = g.ran]]
                  /\ pc' = [pc EXCEPT ![p] = "av_put"]
                  /\ UNCHANGED <<roundedCache, resp, first>>
         ELSE IF ~Decodes(l.imageData)
         THEN /\ Respond(p, [NoResp EXCEPT !.kind = "avatar", !.status = 400,
                               !.ran = {"decode"}])
              /\ UNCHANGED roundedCache
         ELSE LET st == StaticTransform(l.imageData, l.contentType, l.s,
                                        l.radius, roundedCache, now)
              IN  /\ loc' = [loc EXCEPT ![p] =
                       [l EXCEPT !.imageData = st.data,
                                 !.contentType = st.contentType,
                                 !.ran = st.ran, !.age = st.age]]
                  /\ roundedCache' = st.cache
                  /\ pc' = [pc EXCEPT ![p] = "av_put"]
                  /\ UNCHANGED <<resp, first>>
  /\ UNCHANGED <<files, banner, transformCache, now, lastOk, nextImg, nreq,
                 nticks, gif, rg,
                 resizedCache, sc, fn, lk>>

\* the entry avatarHandler stores; putAt, s, radius and version (the file the
\* request saw) are history fields the code does not keep
\* (CachedImage.Timestamp is left unset by avatarHandler)
TransformEntry(l, t) ==
  [ContentType |-> l.contentType,
   Data |-> l.imageData, putAt |-> t, s |-> l.s, radius |-> l.radius,
   version |-> l.sig[4]]

\* lines 165-167 and 210-212: the unconditional store
AvPut(p) ==
  /\ pc[p] = "av_put"
  /\ LET l == loc[p]
     IN  transformCache' =
           [k \in DOMAIN transformCache \cup {l.cacheKey} |->
              IF k = l.cacheKey THEN TransformEntry(l, now)
              ELSE transformCache[k]]
  /\ pc' = [pc EXCEPT ![p] = "av_respond"]
  /\ UNCHANGED <<files, banner, roundedCache, now, loc, resp, first, lastOk,
                 nextImg, nreq, nticks, gif, rg,
                 resizedCache, sc, fn, lk>>

\* lines 177 and 222: the body sent is the imageData of the request itself
ResponseBody(l, cache) == l.imageData

\* lines 169-178 and 214-223: 304 when the client holds the validator
AvRespond(p) ==
  /\ pc[p] = "av_respond"
  /\ LET l == loc[p]
         finalEtag == l.cacheKey
     IN  IF l.clientEtag = Quote(finalEtag)
         THEN Respond(p, [NotModified("avatar", Quote(finalEtag))
                            EXCEPT !.ran = l.ran, !.age = l.age])
         ELSE Respond(p, [NoResp EXCEPT !.kind = "avatar", !.status = 200,
                            !.etag = Quote(finalEtag),
                            !.contentType = l.contentType,
                            !.body = ResponseBody(l, transformCache),
                            !.ran = l.ran, !.age = l.age])
  /\ UNCHANGED <<files, banner, transformCache, roundedCache, now, lastOk,
                 nextImg, nreq, nticks, gif, rg,
          resizedCache, sc, fn, lk>>

----------------------------------------------------------------------------
(* uploadPfpHandler, pfps.go *)

EmptyCache == <<>>

\* lines 226-299: the token check, the extension, deleteAvatars
UpStart(p, accepted, ext, valid) ==
  /\ Free(p)
  /\ nextImg <= MaxUploads + 1
  /\ IF ~accepted
     THEN /\ RespondWith(p, IdleLoc, [NoResp EXCEPT !.kind = "upload",
                                        !.status = 403])
          /\ UNCHANGED <<files, nextImg>>
     ELSE /\ files' = [e \in DOMAIN files |-> NoFile]
          /\ nextImg' = nextImg + 1
          /\ loc' = [loc EXCEPT ![p] =
               [IdleLoc EXCEPT !.img = nextImg, !.ext = ext, !.valid = valid,
                               !.before = files]]
          /\ pc' = [pc EXCEPT ![p] = "up_write"]
          /\ UNCHANGED <<resp, first>>
  /\ UNCHANGED <<banner, transformCache, roundedCache, now, lastOk, nreq,
                 nticks, gif, rg,
                 resizedCache, sc, fn, lk>>

\* lines 301-322: resizeGIF or image.Decode of the upload, then the file is
\* created (os.WriteFile and os.Create truncate it before any byte is written)
UpCreate(p) ==
  /\ pc[p] = "up_write"
  /\ LET l == loc[p]
     IN  IF ~l.valid
         THEN /\ Respond(p, [NoResp EXCEPT !.kind = "upload",
                               !.status = IF l.ext = "gif" THEN 500 ELSE 400])
              /\ UNCHANGED files
         ELSE /\ files' = [files EXCEPT ![l.ext] =
                   [present |-> TRUE, img |-> l.img, complete |-> FALSE,
                    mtime |-> now]]
              /\ pc' = [pc EXCEPT ![p] = "up_fill"]
              /\ UNCHANGED <<loc, resp, first>>
  /\ UNCHANGED <<banner, transformCache, roundedCache, now, lastOk, nextImg,
                 nreq, nticks, gif, rg,
                 resizedCache, sc, fn, lk>>

\* lines 309 and 328: the bytes of the new avatar reach the file
UpFill(p) ==
  /\ pc[p] = "up_fill"
  /\ files' = [files EXCEPT ![loc[p].ext] =
       [present |-> TRUE, img |-> loc[p].img, complete |-> TRUE,
        mtime |-> now]]
  /\ pc' = [pc EXCEPT ![p] = "up_clear"]
  /\ UNCHANGED <<banner, transformCache, roundedCache, now, loc, resp, first,
                 lastOk, nextImg, nreq, nticks, gif, rg,
                 resizedCache, sc, fn, lk>>

\* lines 331-338: transformCache is replaced by an empty map, then success
UpClear(p) ==
  /\ pc[p] = "up_clear"
  /\ transformCache' = EmptyCache
  /\ lastOk' = loc[p].img
  /\ Respond(p, [NoResp EXCEPT !.kind = "upload", !.status = 200])
  /\ UNCHANGED <<files, banner, roundedCache, now, nextImg, nreq, nticks,
                 gif, rg,
                 resizedCache, sc, fn, lk>>

\* lines 331-333, for the upload of any other user: the clear is global
UploadOtherUser ==
  /\ transformCache # EmptyCache
  /\ transformCache' = EmptyCache
  /\ UNCHANGED <<files, banner, roundedCache, now, pc, loc, resp, first,
                 lastOk, nextImg, nreq, nticks, gif, rg,
          resizedCache, sc, fn, lk>>

----------------------------------------------------------------------------
(* bannerHandler, banners.go *)

BannerHeight == 300

BannerBytes(f) == [Bytes(f.img, f.complete) EXCEPT !.dim = BannerHeight]

defaultBannerContent == [Bytes(0 - 2, TRUE) EXCEPT !.dim = 1]

\* getBannerPath, lines 46-63: the validator is built from the current time
getBannerPath(b, t) ==
  IF b["gif"].present
  THEN [err |-> FALSE, path |-> "gif", contentType |-> "image/gif",
        etag |-> Username \o StrDash \o Itoa(t)]
  ELSE IF b["jpg"].present
  THEN [err |-> FALSE, path |-> "jpg", contentType |-> "image/jpeg",
        etag |-> Username \o StrDash \o Itoa(t)]
  ELSE [err |-> TRUE, path |-> "none", contentType |-> "", etag |-> <<>>]

\* bannerHandler, lines 65-155, for a GET request
BannerRequest(p, radius) ==
  /\ Free(p)
  /\ nreq < MaxReq
  /\ nreq' = nreq + 1
  /\ LET meta == getBannerPath(banner, now)
         radiusInt == AcceptedRadius(radius)
         needRounding == radiusInt > 0 /\ ~meta.err
         contentType == IF meta.err THEN "image/jpeg" ELSE meta.contentType
         version == IF meta.err THEN NoFile ELSE banner[meta.path]
         imageData == IF meta.err THEN defaultBannerContent
                      ELSE BannerBytes(version)
         sig == <<"banner", <<>>, radius, version>>
         l == [IdleLoc EXCEPT !.radius = radius, !.sig = sig,
                 !.repeat = sig \in DOMAIN first, !.finalEtagBase = meta.etag,
                 !.identity = meta.etag]
         ok == [NoResp EXCEPT !.kind = "banner", !.status = 200]
     IN  IF ~needRounding
         THEN /\ RespondWith(p, l, [ok EXCEPT !.etag = meta.etag,
                                      !.contentType = contentType,
                                      !.body = imageData])
              /\ UNCHANGED roundedCache
         ELSE IF contentType = "image/gif"
         THEN \E order \in PaletteOrders :
              LET rounded == RoundGIFBytes(imageData, radiusInt, order)
              IN  /\ IF rounded.err
                     THEN RespondWith(p, l, [NoResp EXCEPT !.kind = "banner",
                                               !.status = 500,
                                               !.ran = {"decode"}])
                     ELSE RespondWith(p, l, [ok EXCEPT
                                               !.contentType = "image/gif",
                                               !.body = rounded.data,
                                               !.ran = {"decode", "round"}])
                  /\ UNCHANGED roundedCache
         ELSE LET rounded == roundCorners(imageData, radiusInt, roundedCache, now)
              IN  /\ IF rounded.err
                     THEN RespondWith(p, l, [NoResp EXCEPT !.kind = "banner",
                                               !.status = 500,
                                               !.ran = {"decode"}])
                     ELSE RespondWith(p, l, [ok EXCEPT
                                               !.contentType = rounded.contentType,
                                               !.body = rounded.data,
                                               !.hit = rounded.hit,
                                               !.age = rounded.age,
                                               !.ran = IF rounded.hit THEN {}
                                                       ELSE {"decode", "round"}])
                  /\ roundedCache' = rounded.cache
  /\ UNCHANGED <<files, banner, transformCache, now, lastOk, nextImg, nticks,
                 gif, rg,
                 resizedCache, sc, fn, lk>>

----------------------------------------------------------------------------
(* The clock *)


Tick(d, max) ==
  /\ nticks < max
  /\ nticks' = nticks + 1
  /\ now' = now + d
  /\ UNCHANGED <<files, banner, transformCache, roundedCache, pc, loc, resp,
                 first, lastOk, nextImg, nreq, gif, rg,
                 resizedCache, sc, fn, lk>>

----------------------------------------------------------------------------
(* The server: workers run avatar requests, banner requests and uploads *)

\* query-string values of s and radius for requests that run concurrently
ConcSizes == { <<>>, <<"8">> }
ConcRadii == { <<>>, <<"2">> }

\* query-string values of s and radius for requests that run one at a time
SizeValues == { <<>>, <<"8">>, <<"9", "9", "9">>,
                <<"8", "-", "r", "a", "d", "i", "u", "s", "=", "2">> }
RadiusValues == { <<>>, <<"2">>, <<"2", "p", "x">> }

NoGif == <<>>
NoRound == <<>>
NoStatic == <<>>
NoStep == <<>>
NoLocks == <<>>

\* The user's avatar is stored as a GIF, as a JPEG, or not at all
InitFiles(exts) ==
  \E ext \in exts :
    files = [e \in {"gif", "jpg"} |->
               IF e = ext
               THEN [present |-> TRUE, img |-> 1, complete |-> TRUE,
                     mtime |-> 0]
               ELSE NoFile]

InitBanner(exts) ==
  \E ext \in exts :
    banner = [e \in {"gif", "jpg"} |->
                IF e = ext
                THEN [present |-> TRUE, img |-> 9, complete |-> TRUE,
                      mtime |-> 0]
                ELSE NoFile]

InitHandlers ==
  /\ transformCache = EmptyCache
  /\ roundedCache = EmptyCache
  /\ now = 0
  /\ pc = [p \in Workers |-> "idle"]
  /\ loc = [p \in Workers |-> IdleLoc]
  /\ resp = NoResp
  /\ first = EmptyCache
  /\ lastOk = 0
  /\ nextImg = 2
  /\ nreq = 0
  /\ nticks = 0

InitRest ==
  /\ InitHandlers
  /\ gif = NoGif
  /\ rg = NoRound
  /\ resizedCache = EmptyCache
  /\ sc = NoStatic
  /\ fn = NoStep
  /\ lk = NoLocks

Init ==
  /\ InitFiles({"gif", "jpg", "none"})
  /\ InitBanner({"gif"})
  /\ InitRest

Next ==
  \/ \E p \in Workers, s \in ConcSizes, r \in ConcRadii :
       AvStart(p, s, r, FALSE)
  \/ \E p \in Workers : AvLookup(p)
  \/ \E p \in Workers : AvRead(p)
  \/ \E p \in Workers : AvTransform(p)
  \/ \E p \in Workers : AvPut(p)
  \/ \E p \in Workers : AvRespond(p)
  \/ \E p \in Workers, a \in BOOLEAN, e \in {"gif", "jpg"}, v \in BOOLEAN :
       UpStart(p, a, e, v)
  \/ \E p \in Workers : UpCreate(p)
  \/ \E p \in Workers : UpFill(p)
  \/ \E p \in Workers : UpClear(p)
  \/ UploadOtherUser
  \/ Tick(1, MaxTicks)

Spec == Init /\ [][Next]_vars

\* One worker, requests one at a time, every query-string value, a clock that
\* can pass the cache timeout
NextSeq ==
  \/ \E s \in SizeValues, r \in RadiusValues, c \in BOOLEAN : AvStart(1, s, r, c)
  \/ AvLookup(1)
  \/ AvRead(1)
  \/ AvTransform(1)
  \/ AvPut(1)
  \/ AvRespond(1)
  \/ \E r \in RadiusValues : BannerRequest(1, r)
  \/ UploadOtherUser
  \/ \E d \in {cacheTimeout - 1, cacheTimeout, cacheTimeout + 1} :
       Tick(d, MaxSeqTicks)

InitSeq ==
  /\ InitFiles({"gif", "jpg", "none"})
  /\ InitBanner({"gif", "jpg"})
  /\ InitRest

SpecSeq == InitSeq /\ [][NextSeq]_vars

----------------------------------------------------------------------------
(* roundGIF, utils.go: colours, pixels, rectangles *)

InRect(pt, r) ==
  /\ r.x0 <= pt[1] /\ pt[1] < r.x1
  /\ r.y0 <= pt[2] /\ pt[2] < r.y1

\* frame.At(pt) for a point of the frame's rectangle
FrameAt(frame, pt) == frame.Palette[frame.Pix[pt] + 1]

\* draw.Draw(dst, rect, frame, rect.Min, draw.Over): a pixel of alpha 0 leaves
\* the canvas as it is, an opaque pixel replaces it
DrawOver(canvas, frame) ==
  [pt \in DOMAIN canvas |->
     IF InRect(pt, frame.Rect) /\ FrameAt(frame, pt).a # 0
     THEN FrameAt(frame, pt)
     ELSE canvas[pt]]

\* draw.Draw(dst, rect, &image.Uniform{c}, image.Point{}, draw.Src)
FillRect(canvas, r, c) ==
  [pt \in DOMAIN canvas |-> IF InRect(pt, r) THEN c ELSE canvas[pt]]

DisposalNone == 1
DisposalBackground == 2
DisposalPrevious == 3

UniqueLimit == 255
MaxPalette == 256
ByteRange == 256
WebSafeLen == 216

\* palette.WebSafe: 216 opaque colours, none of them a colour of the inputs
WebSafe == [k \in 1..WebSafeLen |-> Colour(1000 + k)]

----------------------------------------------------------------------------
(* roundGIF: the steps of one frame *)

ColoursOf(img) == {img[pt] : pt \in DOMAIN img}

\* one colour more than the limit let through
uniqueColorsOneMore(img, limit) == Cardinality(ColoursOf(img)) <= limit + 1

\* uniqueColors(img, limit), lines 492-507: whether img has at most limit colours
uniqueColors(img, limit) == Cardinality(ColoursOf(img)) <= limit

ColourKey(c) == c.v * 2 + (IF c.a = 0 THEN 0 ELSE 1)

\* the colours of S in ascending order of their keys
SortedColours(S) ==
  LET rank == [c \in S |->
                 Cardinality({d \in S : ColourKey(d) < ColourKey(c)})]
  IN  [k \in 1..Cardinality(S) |-> CHOOSE c \in S : rank[c] = k - 1]

Reverse(s) == [k \in 1..Len(s) |-> s[Len(s) + 1 - k]]

Rotate(s, n) == [k \in 1..Len(s) |-> s[((k - 1 + n) % Len(s)) + 1]]

\* The orders in which `for col := range unique` (lines 405-409) can list the
\* colours: Go leaves the order of a map iteration unspecified.  All orders
\* of up to three colours; for more colours the rotations of the ascending
\* and of the descending order, up to MaxRotations of them.
MaxRotations == 3

MapOrders(S) ==
  LET asc == SortedColours(S)
      n == Len(asc)
  IN  IF n = 0 THEN { <<>> }
      ELSE { Rotate(asc, k) : k \in 0..(Min(n, MaxRotations) - 1) }
           \cup { Rotate(Reverse(asc), k) : k \in 0..(Min(n, MaxRotations) - 1) }

IndexOf(pal, c) == (CHOOSE k \in 1..Len(pal) : pal[k] = c) - 1

\* lines 394-417: the exact palette, in the order pal, and the pixels as
\* indexes into it
ExactPaletted(inputRGBA, pal) ==
  [Palette |-> pal,
   Pix |-> [pt \in DOMAIN inputRGBA |-> IndexOf(pal, inputRGBA[pt])]]

\* line 392, ditherer.Quantize(inputRGBA, paletted, 255, true, false), a
\* library call: the frame keeps the palette it was created with
\* (palette.WebSafe) or gets a palette of 255 quantized colours, and every
\* pixel gets the index of one of its colours; shift stands for the choice
\* the error diffusion makes
QuantColours == UniqueLimit

QuantPalettes == { WebSafe, [k \in 1..QuantColours |-> Colour(2000 + k)] }

QuantizedPaletted(inputRGBA, pal, shift) ==
  [Palette |-> pal,
   Pix |-> [pt \in DOMAIN inputRGBA |->
              (inputRGBA[pt].v + shift) % Len(pal)]]

\* toRGBA(paletted), lines 485-490
toRGBA(paletted) ==
  [pt \in DOMAIN paletted.Pix |-> paletted.Palette[paletted.Pix[pt] + 1]]

\* lines 420-428: alpha 0 for every pixel outside the rounded rectangle
Masked(outputRGBA, width, height, radius) ==
  [pt \in DOMAIN outputRGBA |->
     IF ~isPixelInRoundedRect(pt[1], pt[2], width, height, radius)
     THEN [outputRGBA[pt] EXCEPT !.a = 0]
     ELSE outputRGBA[pt]]

\* lines 431-438
HasTrans(pal) == \E k \in 1..Len(pal) : pal[k].a = 0

\* the last entry of a full palette given up for the transparent one
WithTransparentReplaced(pal) ==
  IF \E k \in 1..Len(pal) : pal[k].a = 0 THEN [err |-> FALSE, Palette |-> pal]
  ELSE IF Len(pal) >= 256
  THEN [err |-> FALSE, Palette |-> [pal EXCEPT ![Len(pal)] = Transparent]]
  ELSE [err |-> FALSE, Palette |-> Append(pal, Transparent)]

\* lines 439-444: the palette with a transparent entry; the error when the
\* palette is full
WithTransparent(pal) ==
  IF HasTrans(pal) THEN [err |-> FALSE, Palette |-> pal]
  ELSE IF Len(pal) >= MaxPalette THEN [err |-> TRUE, Palette |-> pal]
  ELSE [err |-> FALSE, Palette |-> Append(pal, Transparent)]

\* an index one past the palette
TransIndexPastEnd(pal) == Len(pal)

\* lines 446-454: the first entry of alpha 0
TransIndex(pal) ==
  (CHOOSE k \in 1..Len(pal) :
     pal[k].a = 0 /\ \A j \in 1..(k - 1) : pal[j].a # 0) - 1

\* the pixels as the quantizer left them
OverrideSkipped(pix, outputRGBA, transIndex) == pix

\* lines 456-465: the transparent index for every pixel of alpha 0
OverrideTransparent(pix, outputRGBA, transIndex) ==
  [pt \in DOMAIN pix |-> IF outputRGBA[pt].a = 0 THEN transIndex ELSE pix[pt]]

\* lines 420-467: from the quantized frame to the frame stored in dst
FinishFrame(paletted, width, height, radius) ==
  LET outputRGBA == Masked(toRGBA(paletted), width, height, radius)
      wt == WithTransparent(paletted.Palette)
  IN  IF wt.err THEN [err |-> TRUE, Palette |-> paletted.Palette,
                      Pix |-> paletted.Pix]
      ELSE [err |-> FALSE, Palette |-> wt.Palette,
            Pix |-> OverrideTransparent(paletted.Pix, outputRGBA,
                                        TransIndex(wt.Palette))]

\* the compositor left as the frame drew it, whatever the disposal
DisposedNever(compositor, disposal, frameRect, bgColor, prev, hasPrev) ==
  compositor

\* lines 470-479: the disposal of the source frame, applied to the compositor
Disposed(compositor, disposal, frameRect, bgColor, prev, hasPrev) ==
  IF disposal = DisposalBackground THEN FillRect(compositor, frameRect, bgColor)
  ELSE IF disposal = DisposalPrevious /\ hasPrev THEN prev
  ELSE compositor

\* lines 353-358: the background colour; the palette length is cast to a byte
BgColor(src) ==
  IF src.BackgroundIndex < Len(src.Image[1].Palette) % ByteRange
  THEN src.Image[1].Palette[src.BackgroundIndex + 1]
  ELSE Transparent

\* lines 334-339
ClampRadius(radius, width, height) ==
  LET r1 == IF radius > width \div 2 THEN width \div 2 ELSE radius
  IN  IF r1 > height \div 2 THEN height \div 2 ELSE r1

----------------------------------------------------------------------------
(* roundGIF as a state machine: the prologue, then one step per frame *)

NilFrame == [Palette |-> <<>>, Pix |-> <<>>]

NoDst == [LoopCount |-> 0, Delay |-> <<>>, Disposal |-> <<>>, Image |-> <<>>,
          Width |-> 0, Height |-> 0]

\* roundGIF before its first statement.  snaps (the composited snapshot of
\* each frame, inputRGBA), quantized (whether the frame went through the
\* quantizer) and before (the compositor before each frame was drawn) are
\* history fields.
RgIdle ==
  [pc |-> "start", i |-> 0, radius |-> 0, width |-> 0, height |-> 0,
   bgColor |-> Transparent, compositor |-> <<>>, prev |-> <<>>,
   hasPrev |-> FALSE, dst |-> NoDst, snaps |-> <<>>, out |-> "none",
   quantized |-> <<>>, before |-> <<>>]

\* dst without the loop count and the delays
NewDstBare(src) ==
  [LoopCount |-> 0,
   Delay |-> [k \in 1..Len(src.Delay) |-> 0],
   Disposal |-> [k \in 1..Len(src.Disposal) |-> 0],
   Image |-> [k \in 1..Len(src.Image) |-> NilFrame],
   Width |-> src.Width, Height |-> src.Height]

\* lines 345-351: dst, with the loop count and the delays of src and a slot
\* for each of its frames
NewDst(src) ==
  [LoopCount |-> src.LoopCount,
   Delay |-> src.Delay,
   Disposal |-> [k \in 1..Len(src.Disposal) |-> 0],
   Image |-> [k \in 1..Len(src.Image) |-> NilFrame],
   Width |-> src.Width, Height |-> src.Height]

\* src itself returned for an animation without frames
NoFramesReturnsSrc(r) == [r EXCEPT !.pc = "done", !.out = "src"]

\* lines 327-329: the error for an animation without frames, and no GIF
NoFramesError(r) == [r EXCEPT !.pc = "done", !.out = "error"]

\* lines 326-361: no frames is an error; the radius is clamped; a radius of 0
\* returns src itself; otherwise dst, bgColor and the compositor are set up
RgStart ==
  /\ gif # NoGif
  /\ rg.pc = "start"
  /\ LET src == gif.src
         width == src.Width
         height == src.Height
         radius == ClampRadius(gif.radius, width, height)
     IN  rg' =
           IF Len(src.Image) = 0
           THEN NoFramesError(rg)
           ELSE IF radius <= 0
           THEN [rg EXCEPT !.pc = "done", !.out = "src", !.radius = radius,
                           !.width = width, !.height = height]
           ELSE [rg EXCEPT
                   !.pc = "loop", !.i = 1, !.radius = radius,
                   !.width = width, !.height = height,
                   !.bgColor = BgColor(src),
                   !.compositor = [pt \in Points(width, height) |-> BgColor(src)],
                   !.dst = NewDst(src)]
  /\ UNCHANGED <<files, banner, transformCache, roundedCache, now, pc, loc,
                 resp, first, lastOk, nextImg, nreq, nticks, gif,
                 resizedCache, sc, fn, lk>>

\* what the quantizer may do with a pixel (see QuantizedPaletted)
QuantShifts == {0, WebSafeLen - 1}

\* lines 382-418: the palettes and pixels the frame can get
PalettedChoices(inputRGBA) ==
  IF uniqueColors(inputRGBA, UniqueLimit)
  THEN { ExactPaletted(inputRGBA, pal) : pal \in MapOrders(ColoursOf(inputRGBA)) }
  ELSE { QuantizedPaletted(inputRGBA, pal, shift) :
           pal \in QuantPalettes, shift \in QuantShifts }

\* the frame stored at dst.Image[i], line 467
StoredFrame(fin) == [Palette |-> fin.Palette, Pix |-> fin.Pix]

\* the disposal of the source frame
StoredDisposalKept(disposal) == disposal

\* the disposal stored at dst.Disposal[i], line 468
StoredDisposal(disposal) == DisposalNone

\* lines 366-480: one iteration of the loop over the frames
RgFrame ==
  /\ gif # NoGif
  /\ rg.pc = "loop"
  /\ LET src == gif.src
         i == rg.i
         frame == src.Image[i]
         takePrev == src.Disposal[i] = DisposalPrevious
         prev == IF takePrev THEN rg.compositor ELSE rg.prev
         hasPrev == rg.hasPrev \/ takePrev
         inputRGBA == DrawOver(rg.compositor, frame)
     IN  \E paletted \in PalettedChoices(inputRGBA) :
           LET fin == FinishFrame(paletted, rg.width, rg.height, rg.radius)
           IN  rg' =
                 IF fin.err
                 THEN [rg EXCEPT !.pc = "done", !.out = "error",
                                 !.compositor = inputRGBA,
                                 !.prev = prev, !.hasPrev = hasPrev,
                                 !.snaps = Append(@, inputRGBA),
                                 !.before = Append(@, rg.compositor),
                                 !.quantized = Append(@,
                                    ~uniqueColors(inputRGBA, UniqueLimit))]
                 ELSE [rg EXCEPT
                         !.pc = IF i = Len(src.Image) THEN "done" ELSE "loop",
                         !.out = IF i = Len(src.Image) THEN "rounded" ELSE "none",
                         !.i = IF i = Len(src.Image) THEN i ELSE i + 1,
                         !.prev = prev, !.hasPrev = hasPrev,
                         !.snaps = Append(@, inputRGBA),
                         !.before = Append(@, rg.compositor),
                         !.quantized = Append(@,
                            ~uniqueColors(inputRGBA, UniqueLimit)),
                         !.dst.Image[i] = StoredFrame(fin),
                         !.dst.Disposal[i] = StoredDisposal(src.Disposal[i]),
                         !.compositor =
                            Disposed(inputRGBA, src.Disposal[i], frame.Rect,
                                     rg.bgColor, prev, hasPrev)]
  /\ UNCHANGED <<files, banner, transformCache, roundedCache, now, pc, loc,
                 resp, first, lastOk, nextImg, nreq, nticks, gif,
                 resizedCache, sc, fn, lk>>

----------------------------------------------------------------------------
(* The animations roundGIF is run on *)

MaxSide == 3
MaxFrames == 2

FullRect(w, h) == [x0 |-> 0, y0 |-> 0, x1 |-> w, y1 |-> h]
SubRect(w, h) == [x0 |-> w \div 2, y0 |-> h \div 2, x1 |-> w, y1 |-> h]

RectPoints(r) == (r.x0..(r.x1 - 1)) \X (r.y0..(r.y1 - 1))

\* A frame of the source: it covers the canvas with indexes 0 and 1 in a
\* checkerboard, or its lower right part with index 1; any disposal
FrameParams ==
  { [rect |-> "full", pat |-> "checker", disposal |-> d] :
      d \in {DisposalNone, DisposalBackground, DisposalPrevious} }
  \cup { [rect |-> "sub", pat |-> "flat", disposal |-> d] :
      d \in {DisposalNone, DisposalBackground, DisposalPrevious} }

MakeFrame(w, h, pal, fp) ==
  LET r == IF fp.rect = "full" THEN FullRect(w, h) ELSE SubRect(w, h)
  IN  [Rect |-> r, Palette |-> pal,
       Pix |-> [pt \in RectPoints(r) |->
                  IF fp.pat = "flat" THEN 1 ELSE (pt[1] + pt[2]) % 2]]

\* a decoded GIF (gif.GIF): every frame lies inside the canvas and every
\* pixel is an index into the frame's palette, as gif.DecodeAll ensures
MakeGif(w, h, pal, fps, bg, loop) ==
  [Width |-> w, Height |-> h,
   Image |-> [k \in 1..Len(fps) |-> MakeFrame(w, h, pal, fps[k])],
   Disposal |-> [k \in 1..Len(fps) |-> fps[k].disposal],
   Delay |-> [k \in 1..Len(fps) |-> 7 * k],
   LoopCount |-> loop, BackgroundIndex |-> bg]

SmallPalettes == { <<Colour(1), Colour(2)>>, <<Colour(1), Transparent>> }

\* a square canvas, a flat one, and one too narrow to be rounded
Shapes == { <<MaxSide, MaxSide>>, <<MaxSide, MaxSide - 1>>, <<1, MaxSide>> }

SmallGifs ==
  { MakeGif(wh[1], wh[2], pal, fps, bg, loop) :
      wh \in Shapes, pal \in SmallPalettes,
      fps \in UNION { [1..n -> FrameParams] : n \in 0..MaxFrames },
      bg \in {1, 2}, loop \in {0, 2} }

\* a 16 x 16 frame of n colours, pixel k having colour min(k, n - 1)
BigSide == 16

ManyColours(n) == [k \in 1..n |-> Colour(k)]

BigGif(n, disposal) ==
  [Width |-> BigSide, Height |-> BigSide,
   Image |-> << [Rect |-> FullRect(BigSide, BigSide),
                 Palette |-> ManyColours(n),
                 Pix |-> [pt \in Points(BigSide, BigSide) |->
                            Min(pt[2] * BigSide + pt[1], n - 1)]] >>,
   Disposal |-> <<disposal>>, Delay |-> <<7>>, LoopCount |-> 0,
   BackgroundIndex |-> 1]

BigGifs ==
  { BigGif(n, DisposalBackground) : n \in {UniqueLimit, MaxPalette} }

\* animations whose palette has 256 entries, all of them opaque
WideGifs ==
  { MakeGif(MaxSide, MaxSide, ManyColours(MaxPalette), fps, 1, 0) :
      fps \in [1..MaxFrames -> FrameParams] }

GifInputs == SmallGifs \cup BigGifs \cup WideGifs

RadiusRequests == {0, 1, 9}

InitGIF ==
  /\ InitFiles({"none"})
  /\ InitBanner({"gif"})
  /\ InitHandlers
  /\ \E src \in GifInputs, radius \in RadiusRequests :
       gif = [src |-> src, radius |-> radius]
  /\ rg = RgIdle
  /\ resizedCache = EmptyCache
  /\ sc = NoStatic
  /\ fn = NoStep
  /\ lk = NoLocks

NextGIF == RgStart \/ RgFrame

SpecGIF == InitGIF /\ [][NextGIF]_vars

----------------------------------------------------------------------------
(* roundCorners and resizeImage, called on the pixels of static images *)

MaxDim == 3

NoCall == [called |-> FALSE]

\* the result of a call, with the two caches as they were before it
Called(r, what) ==
  [called |-> TRUE, what |-> what, err |-> r.err, data |-> r.data,
   contentType |-> IF "contentType" \in DOMAIN r THEN r.contentType ELSE "",
   hit |-> r.hit, roundedBefore |-> roundedCache,
   resizedBefore |-> resizedCache]

\* half of the shorter side
HalfMin(img) == Min(img.w, img.h) \div 2

\* before any call: the input bytes, the radius and the size to ask for
ScIdle(src, radius, size) ==
  [src |-> src, radius |-> radius, size |-> size, round |-> NoCall,
   again |-> NoCall, exact |-> NoCall, resized |-> NoCall,
   hresized |-> NoCall, last |-> NoCall]

\* roundCorners(src, radius)
ScRound ==
  /\ sc # NoStatic
  /\ ~sc.round.called
  /\ LET r == roundCorners(sc.src, sc.radius, roundedCache, now)
     IN  /\ roundedCache' = r.cache
         /\ sc' = [sc EXCEPT !.round = Called(r, "round"),
                             !.last = Called(r, "round")]
  /\ UNCHANGED <<files, banner, transformCache, now, pc, loc, resp, first,
                 lastOk, nextImg, nreq, nticks, gif, rg, resizedCache,
                 fn, lk>>

\* roundCorners, with the same radius, on what the first call returned
ScRoundAgain ==
  /\ sc # NoStatic
  /\ sc.round.called /\ ~sc.round.err
  /\ ~sc.again.called
  /\ LET r == roundCorners(sc.round.data, sc.radius, roundedCache, now)
     IN  /\ roundedCache' = r.cache
         /\ sc' = [sc EXCEPT !.again = Called(r, "round"),
                             !.last = Called(r, "round")]
  /\ UNCHANGED <<files, banner, transformCache, now, pc, loc, resp, first,
                 lastOk, nextImg, nreq, nticks, gif, rg, resizedCache,
                 fn, lk>>

\* roundCorners(src, min(width, height) / 2)
ScRoundExact ==
  /\ sc # NoStatic
  /\ ~sc.exact.called
  /\ LET r == roundCorners(sc.src, HalfMin(sc.src), roundedCache, now)
     IN  /\ roundedCache' = r.cache
         /\ sc' = [sc EXCEPT !.exact = Called(r, "round"),
                             !.last = Called(r, "round")]
  /\ UNCHANGED <<files, banner, transformCache, now, pc, loc, resp, first,
                 lastOk, nextImg, nreq, nticks, gif, rg, resizedCache,
                 fn, lk>>

\* resizeImage(src, size)
ScResizeImage ==
  /\ sc # NoStatic
  /\ ~sc.resized.called
  /\ LET r == resizeImage(sc.src, sc.size, resizedCache, now)
     IN  /\ resizedCache' = r.cache
         /\ sc' = [sc EXCEPT !.resized = Called(r, "resize"),
                             !.last = Called(r, "resize")]
  /\ UNCHANGED <<files, banner, transformCache, roundedCache, now, pc, loc,
                 resp, first, lastOk, nextImg, nreq, nticks, gif, rg, fn, lk>>

\* the resize step of avatarHandler, pfps.go lines 181-196: it runs on an
\* image that decoded, for a size from 1 to 256
ScResizeStatic ==
  /\ sc # NoStatic
  /\ ~sc.hresized.called
  /\ DecodesImage(sc.src)
  /\ sc.size > 0 /\ sc.size <= MaxAvatarSize
  /\ sc' = [sc EXCEPT !.hresized =
               Called([err |-> FALSE, hit |-> FALSE,
                       data |-> ResizeStaticPixels(sc.src, sc.size)],
                      "hresize")]
  /\ UNCHANGED <<files, banner, transformCache, roundedCache, now, pc, loc,
                 resp, first, lastOk, nextImg, nreq, nticks, gif, rg,
                 resizedCache, fn, lk>>

\* The inputs: JPEG images of one colour and of two, PNG images that are
\* transparent all over (as the default banner is), a GIF without pixels,
\* and bytes that are no image
Opaque(v) == [v |-> v, a |-> 255]

StaticPatterns == {"flat", "checker", "clear"}

StaticImage(w, h, pat) ==
  ImageBytes(IF pat = "clear" THEN "png" ELSE "jpeg", w, h,
             [pt \in Points(w, h) |->
                IF pat = "clear" THEN Transparent
                ELSE IF pat = "checker" /\ (pt[1] + pt[2]) % 2 = 1
                THEN Opaque(10) ELSE Opaque(200)])

EmptyImage == ImageBytes("gif", 0, 0, <<>>)
BadBytes == ImageBytes("bad", 0, 0, <<>>)

StaticInputs ==
  { StaticImage(w, h, pat) :
      w \in 1..MaxDim, h \in 1..MaxDim, pat \in StaticPatterns }
  \cup {EmptyImage, BadBytes}

StaticRadii == {1, 2, 9}
StaticSizes == {1, 2, 65536}

InitStatic ==
  /\ InitFiles({"none"})
  /\ InitBanner({"gif"})
  /\ InitHandlers
  /\ gif = NoGif
  /\ rg = NoRound
  /\ resizedCache = EmptyCache
  /\ \E src \in StaticInputs, radius \in StaticRadii, size \in StaticSizes :
       sc = ScIdle(src, radius, size)
  /\ fn = NoStep
  /\ lk = NoLocks

NextStatic ==
  \/ ScRound
  \/ ScRoundAgain
  \/ ScRoundExact
  \/ ScResizeImage
  \/ ScResizeStatic

SpecStatic == InitStatic /\ [][NextStatic]_vars

----------------------------------------------------------------------------
(* The transparency step of roundGIF and isPixelInRoundedRect, on given
   inputs *)

MaxRect == 6

\* lines 420-465 of roundGIF on a frame as the palette step gets it: the
\* frame with its transparent index, or the error and no GIF
FnTransparency ==
  /\ fn # NoStep
  /\ fn.op = "transparency" /\ ~fn.done
  /\ LET fin == FinishFrame(fn.paletted, fn.width, fn.height, fn.radius)
     IN  fn' = [fn EXCEPT !.done = TRUE,
                          !.out = IF fin.err THEN "error" ELSE "frame",
                          !.frame = IF fin.err THEN NilFrame
                                    ELSE StoredFrame(fin)]
  /\ UNCHANGED <<files, banner, transformCache, roundedCache, now, pc, loc,
                 resp, first, lastOk, nextImg, nreq, nticks, gif, rg,
                 resizedCache, sc, lk>>

\* a call of isPixelInRoundedRect
FnInside ==
  /\ fn # NoStep
  /\ fn.op = "inside" /\ ~fn.done
  /\ fn' = [fn EXCEPT !.done = TRUE,
                      !.res = isPixelInRoundedRect(fn.x, fn.y, fn.width,
                                                   fn.height, fn.radius)]
  /\ UNCHANGED <<files, banner, transformCache, roundedCache, now, pc, loc,
                 resp, first, lastOk, nextImg, nreq, nticks, gif, rg,
                 resizedCache, sc, lk>>

\* palettes of 1, 2, 255 and 256 entries: opaque, or with an entry of alpha
\* 0 in the first or in the last place
StepPalettes ==
  LET lens == {1, 2, UniqueLimit, MaxPalette}
  IN  { ManyColours(n) : n \in lens }
      \cup { [ManyColours(n) EXCEPT ![1] = Transparent] : n \in lens }
      \cup { [ManyColours(n) EXCEPT ![n] = [v |-> 7, a |-> 0]] : n \in lens }

\* frames of 2x2 and 3x3 pixels over a palette
StepFrames ==
  { [Palette |-> pal,
     Pix |-> [pt \in Points(side, side) |->
                (pt[1] * spread + pt[2]) % Len(pal)]] :
      pal \in StepPalettes, side \in {2, 3}, spread \in {0, 3} }

StepInputs ==
  { [op |-> "transparency", done |-> FALSE, out |-> "none",
     frame |-> NilFrame, paletted |-> f, radius |-> 1,
     width |-> IF <<2, 2>> \in DOMAIN f.Pix THEN 3 ELSE 2,
     height |-> IF <<2, 2>> \in DOMAIN f.Pix THEN 3 ELSE 2] :
      f \in StepFrames }

\* every pixel of every rectangle up to MaxRect, every radius up to half the
\* shorter side, and a negative radius
InsideInputs ==
  { [op |-> "inside", done |-> FALSE, res |-> FALSE,
     x |-> x, y |-> y, width |-> w, height |-> h, radius |-> r] :
      x \in 0..(MaxRect - 1), y \in 0..(MaxRect - 1),
      w \in 1..MaxRect, h \in 1..MaxRect, r \in (0 - 1)..(MaxRect \div 2) }

InitFn ==
  /\ InitFiles({"none"})
  /\ InitBanner({"gif"})
  /\ InitHandlers
  /\ gif = NoGif
  /\ rg = NoRound
  /\ resizedCache = EmptyCache
  /\ sc = NoStatic
  /\ lk = NoLocks
  /\ \/ fn \in StepInputs
     \/ /\ fn \in InsideInputs
        /\ fn.x < fn.width /\ fn.y < fn.height
        /\ fn.radius <= Min(fn.width, fn.height) \div 2

NextFn == FnTransparency \/ FnInside

SpecFn == InitFn /\ [][NextFn]_vars

----------------------------------------------------------------------------
(* cacheMutex: the statements of each function that lock, unlock, touch a
   cache map or work on an image, in the order of the code *)

\* one statement: ins is RLock, RUnlock, Lock, Unlock, read (map lookup),
\* fresh (the age test of the entry found), write (map insert), clear (map
\* replacement) or work (decode, resize, mask, quantize, encode, file I/O)
Ins(ins, map, line) == [ins |-> ins, map |-> map, line |-> line]

\* roundCorners, utils.go: the entry is there and fresh
roundCornersHit ==
  << Ins("RLock", "", 273), Ins("read", "roundedCache", 274),
     Ins("fresh", "", 275), Ins("RUnlock", "", 276) >>

\* the store of roundCorners with the mutex taken before the decoding
roundCornersStoreLockedEarly ==
  << Ins("Lock", "", 315), Ins("work", "", 282),
     Ins("write", "roundedCache", 316), Ins("Unlock", "", 321) >>

\* roundCorners, lines 282-321: decode, mask, encode, then the store
roundCornersStore ==
  << Ins("work", "", 282), Ins("Lock", "", 315),
     Ins("write", "roundedCache", 316), Ins("Unlock", "", 321) >>

\* roundCorners: the entry is there and too old
roundCornersExpired ==
  << Ins("RLock", "", 273), Ins("read", "roundedCache", 274),
     Ins("fresh", "", 275), Ins("RUnlock", "", 280) >> \o roundCornersStore

\* roundCorners: no entry
roundCornersMiss ==
  << Ins("RLock", "", 273), Ins("read", "roundedCache", 274),
     Ins("RUnlock", "", 280) >> \o roundCornersStore

\* roundCorners: no entry, and image.Decode or png.Encode fails
roundCornersFail ==
  << Ins("RLock", "", 273), Ins("read", "roundedCache", 274),
     Ins("RUnlock", "", 280), Ins("work", "", 282) >>

\* resizeImage, utils.go
resizeImageHit ==
  << Ins("RLock", "", 559), Ins("read", "resizedCache", 560),
     Ins("fresh", "", 561), Ins("RUnlock", "", 562) >>

resizeImageStore ==
  << Ins("work", "", 568), Ins("Lock", "", 583),
     Ins("write", "resizedCache", 584), Ins("Unlock", "", 589) >>

resizeImageExpired ==
  << Ins("RLock", "", 559), Ins("read", "resizedCache", 560),
     Ins("fresh", "", 561), Ins("RUnlock", "", 566) >> \o resizeImageStore

resizeImageMiss ==
  << Ins("RLock", "", 559), Ins("read", "resizedCache", 560),
     Ins("RUnlock", "", 566) >> \o resizeImageStore

resizeImageFail ==
  << Ins("RLock", "", 559), Ins("read", "resizedCache", 560),
     Ins("RUnlock", "", 566), Ins("work", "", 568) >>

\* the lookup of avatarHandler without the mutex
avatarLookupUnlocked == << Ins("read", "transformCache", 103) >>

\* avatarHandler, pfps.go lines 102-104
avatarLookup ==
  << Ins("RLock", "", 102), Ins("read", "transformCache", 103),
     Ins("RUnlock", "", 104) >>

\* avatarHandler: the GIF branch, lines 118-167
avatarGif ==
  avatarLookup \o
  << Ins("work", "", 118), Ins("Lock", "", 165),
     Ins("write", "transformCache", 166), Ins("Unlock", "", 167) >>

\* avatarHandler: image.Decode fails, lines 181-185
avatarDecodeFail == avatarLookup \o << Ins("work", "", 181) >>

\* avatarHandler: the static branch, lines 181-212, with the statements of
\* its call of roundCorners (none without a radius)
avatarStatic(rounding) ==
  avatarLookup \o << Ins("work", "", 181) >> \o rounding \o
  << Ins("Lock", "", 210), Ins("write", "transformCache", 211),
     Ins("Unlock", "", 212) >>

\* bannerHandler, banners.go: the file is read, then roundCorners, line 146
bannerStatic(rounding) == << Ins("work", "", 85) >> \o rounding

\* uploadPfpHandler, pfps.go lines 299-333: the file is written, then
\* transformCache is replaced
uploadPfp ==
  << Ins("work", "", 299), Ins("Lock", "", 331),
     Ins("clear", "transformCache", 332), Ins("Unlock", "", 333) >>

\* the paths through the functions that a worker can take
Program(path) ==
  CASE path = "avatarHit" -> avatarLookup
    [] path = "avatarGif" -> avatarGif
    [] path = "avatarDecodeFail" -> avatarDecodeFail
    [] path = "avatarPlain" -> avatarStatic(<<>>)
    [] path = "avatarRoundHit" -> avatarStatic(roundCornersHit)
    [] path = "avatarRoundMiss" -> avatarStatic(roundCornersMiss)
    [] path = "avatarRoundExpired" -> avatarStatic(roundCornersExpired)
    [] path = "avatarRoundFail" -> avatarStatic(roundCornersFail)
    [] path = "bannerRoundMiss" -> bannerStatic(roundCornersMiss)
    [] path = "resizeHit" -> resizeImageHit
    [] path = "resizeMiss" -> resizeImageMiss
    [] path = "resizeExpired" -> resizeImageExpired
    [] path = "resizeFail" -> resizeImageFail
    [] path = "upload" -> uploadPfp
    [] OTHER -> <<>>

Paths ==
  {"avatarHit", "avatarGif", "avatarDecodeFail", "avatarPlain",
   "avatarRoundHit", "avatarRoundMiss", "avatarRoundExpired",
   "avatarRoundFail", "bannerRoundMiss", "resizeHit", "resizeMiss",
   "resizeExpired", "resizeFail", "upload"}

\* sync.RWMutex: the workers holding it shared, the worker holding it
\* exclusively (0 for none); path and at give each worker's next statement,
\* mid tells that its map access has begun and not ended
FreeLocks ==
  [readers |-> {}, writer |-> 0,
   path |-> [p \in Workers |-> "none"],
   at |-> [p \in Workers |-> 0],
   mid |-> [p \in Workers |-> FALSE]]

Running(p) == lk # NoLocks /\ lk.at[p] \in 1..Len(Program(lk.path[p]))

\* the statement worker p is at
Cur(p) == Program(lk.path[p])[lk.at[p]]

LockFrame ==
  UNCHANGED <<files, banner, transformCache, roundedCache, now, pc, loc,
              resp, first, lastOk, nextImg, nreq, nticks, gif, rg,
              resizedCache, sc, fn>>

\* a request arrives and its worker enters the function
LkCall(p, path) ==
  /\ lk # NoLocks /\ lk.at[p] = 0
  /\ lk' = [lk EXCEPT !.path[p] = path, !.at[p] = 1]
  /\ LockFrame

\* RLock waits while a writer holds the mutex
LkRLock(p) ==
  /\ Running(p) /\ Cur(p).ins = "RLock"
  /\ lk.writer = 0
  /\ lk' = [lk EXCEPT !.readers = @ \cup {p}, !.at[p] = @ + 1]
  /\ LockFrame

LkRUnlock(p) ==
  /\ Running(p) /\ Cur(p).ins = "RUnlock"
  /\ lk' = [lk EXCEPT !.readers = @ \ {p}, !.at[p] = @ + 1]
  /\ LockFrame

\* Lock waits while anyone holds the mutex
LkLock(p) ==
  /\ Running(p) /\ Cur(p).ins = "Lock"
  /\ lk.writer = 0 /\ lk.readers = {}
  /\ lk' = [lk EXCEPT !.writer = p, !.at[p] = @ + 1]
  /\ LockFrame

LkUnlock(p) ==
  /\ Running(p) /\ Cur(p).ins = "Unlock"
  /\ lk' = [lk EXCEPT !.writer = IF @ = p THEN 0 ELSE @, !.at[p] = @ + 1]
  /\ LockFrame

\* a map access begins
LkAccessBegin(p) ==
  /\ Running(p) /\ Cur(p).ins \in {"read", "write", "clear"}
  /\ ~lk.mid[p]
  /\ lk' = [lk EXCEPT !.mid[p] = TRUE]
  /\ LockFrame

\* and ends
LkAccessEnd(p) ==
  /\ Running(p) /\ lk.mid[p]
  /\ lk' = [lk EXCEPT !.mid[p] = FALSE, !.at[p] = @ + 1]
  /\ LockFrame

\* the work on an image, or the age test of an entry
LkWork(p) ==
  /\ Running(p) /\ Cur(p).ins \in {"work", "fresh"}
  /\ lk' = [lk EXCEPT !.at[p] = @ + 1]
  /\ LockFrame

\* the function returns
LkReturn(p) ==
  /\ lk # NoLocks /\ lk.path[p] # "none"
  /\ lk.at[p] = Len(Program(lk.path[p])) + 1
  /\ lk' = [lk EXCEPT !.path[p] = "none", !.at[p] = 0]
  /\ LockFrame

InitLock ==
  /\ InitFiles({"none"})
  /\ InitBanner({"gif"})
  /\ InitHandlers
  /\ gif = NoGif
  /\ rg = NoRound
  /\ resizedCache = EmptyCache
  /\ sc = NoStatic
  /\ fn = NoStep
  /\ lk = FreeLocks

NextLock ==
  \/ \E p \in Workers, path \in Paths : LkCall(p, path)
  \/ \E p \in Workers : LkRLock(p)
  \/ \E p \in Workers : LkRUnlock(p)
  \/ \E p \in Workers : LkLock(p)
  \/ \E p \in Workers : LkUnlock(p)
  \/ \E p \in Workers : LkAccessBegin(p)
  \/ \E p \in Workers : LkAccessEnd(p)
  \/ \E p \in Workers : LkWork(p)
  \/ \E p \in Workers : LkReturn(p)

SpecLock == InitLock /\ [][NextLock]_vars

----------------------------------------------------------------------------
(* Claims about the handlers and their caches *)

HasOp(data, names) == \E i \in 1..Len(data.ops) : data.ops[i][1] \in names

AvatarActive(p) ==
  pc[p] \in {"av_lookup", "av_read", "av_transform", "av_put", "av_respond"}

\* C1: every entry of transformCache stored under a key that carries a size
\* modifier holds resized bytes, and every entry stored under a key that
\* carries a radius modifier holds rounded bytes: a put only follows the
\* success of every transform the key names.
C1_PutOnlyAfterSuccess ==
  \A k \in DOMAIN transformCache :
    LET e == transformCache[k]
    IN  /\ e.s # <<>> => HasOp(e.Data, {"resize", "resizegif"})
        /\ e.radius # <<>> => HasOp(e.Data, {"round", "roundgif"})

\* C2: no response is served from a cache entry (of transformCache or of
\* roundedCache) that is older than cacheTimeout seconds.
C2_NoEntryOlderThanTTLServed ==
  resp.age <= cacheTimeout

\* C3: once an upload has replaced the avatar and returned success, no avatar
\* response sent afterwards carries bytes made from an image that an upload
\* had replaced by then.
C3_NoOldBytesAfterUpload ==
  (resp.kind = "avatar" /\ resp.status = 200 /\ resp.after > 0)
    => ~(0 < resp.body.src /\ resp.body.src < resp.after)

\* C4: for one source image, a request whose (s, radius) differs from the
\* (s, radius) of the request that stored a transformCache entry never computes
\* the key of that entry.
C4_KeysDifferWhenParametersDiffer ==
  \A p \in Workers, k \in DOMAIN transformCache :
    (AvatarActive(p) /\ loc[p].cacheKey = k
       /\ transformCache[k].version = loc[p].sig[4])
      => (transformCache[k].s = loc[p].s
            /\ transformCache[k].radius = loc[p].radius)

\* C5: an avatar response with a body has the validator of an earlier avatar
\* response if and only if it has the same body.
C5_SameValidatorIffSameBody ==
  \A sig \in DOMAIN first :
    (resp.kind = "avatar" /\ resp.status = 200 /\ sig[1] = "avatar"
       /\ first[sig].status = 200)
      => ((first[sig].etag = resp.etag) <=> (first[sig].body = resp.body))

\* C6: the second of two requests for the same unchanged image with the same
\* size and radius carries the validator of the first, is a cache hit, and
\* runs no decode, resize or rounding.
C6_SecondRequestIsAHit ==
  (resp.repeat /\ resp.status \in {200, 304}
     /\ (resp.s # <<>> \/ resp.radius # <<>>))
    => (resp.etag = resp.expect /\ resp.hit /\ resp.ran = {})

----------------------------------------------------------------------------
(* Claims about roundGIF *)

\* the frames of dst that the loop has stored
StoredFrames == { k \in 1..Len(rg.dst.Image) : rg.dst.Image[k] # NilFrame }

\* the pixels of the canvas outside the rounded rectangle
OutsidePoints ==
  { pt \in Points(rg.width, rg.height) :
      ~isPixelInRoundedRect(pt[1], pt[2], rg.width, rg.height, rg.radius) }

ValidIndex(f, pt) == f.Pix[pt] \in 0..(Len(f.Palette) - 1)

\* C7: after roundGIF has rounded with a clamped radius of at least 1, in
\* every frame of the output every pixel outside the rounded rectangle has an
\* index whose palette entry has alpha 0.
C7_OutsidePixelsTransparent ==
  rg.radius >= 1 =>
    \A k \in StoredFrames : \A pt \in OutsidePoints :
      LET f == rg.dst.Image[k]
      IN  ValidIndex(f, pt) /\ f.Palette[f.Pix[pt] + 1].a = 0

\* a returned animation of two frames in which a pixel outside the rounded
\* rectangle was opaque in both composited snapshots
C7_Witness ==
  /\ rg.out = "rounded"
  /\ Len(rg.snaps) = 2
  /\ \E pt \in OutsidePoints : \A k \in 1..2 : rg.snaps[k][pt].a # 0

\* C8: in every frame of roundGIF's output each pixel's index is within
\* [0, length of the frame's palette) and the palette has at most 256 entries.
C8_IndexesWithinPalette ==
  \A k \in StoredFrames :
    LET f == rg.dst.Image[k]
    IN  /\ Len(f.Palette) <= MaxPalette
        /\ \A pt \in DOMAIN f.Pix : ValidIndex(f, pt)

\* a returned frame whose palette has all 256 entries, the last of them used
C8_Witness ==
  /\ rg.out = "rounded"
  /\ \E k \in StoredFrames :
       LET f == rg.dst.Image[k]
       IN  /\ Len(f.Palette) = MaxPalette
           /\ \E pt \in DOMAIN f.Pix : f.Pix[pt] = MaxPalette - 1

\* the colour at the background index of the animation, transparent when
\* the index is not one of the palette
BackgroundColour(src) ==
  IF src.BackgroundIndex < Len(src.Image[1].Palette)
  THEN src.Image[1].Palette[src.BackgroundIndex + 1]
  ELSE Transparent

\* frame k of the source draws the pixel pt
Draws(src, k, pt) ==
  InRect(pt, src.Image[k].Rect) /\ FrameAt(src.Image[k], pt).a # 0

\* frame k has disposal Background and frame k + 1 covers only a part of
\* the canvas
BackgroundThenPart(src, k) ==
  /\ src.Disposal[k] = DisposalBackground
  /\ src.Image[k + 1].Rect # FullRect(src.Width, src.Height)

\* the snapshot of frame k + 1 shows the colour c at every pixel of the box
\* of frame k that frame k + 1 does not draw
ShowsInBox(src, k, c) ==
  \A pt \in Points(src.Width, src.Height) :
    (InRect(pt, src.Image[k].Rect) /\ ~Draws(src, k + 1, pt))
      => rg.snaps[k + 1][pt] = c

\* C9: when frame i has disposal Background and frame i+1 draws only a
\* sub-rectangle, the composited snapshot of frame i+1 shows the background
\* colour of the animation at every pixel of the bounding box of frame i that
\* frame i+1 does not draw.
C9_BackgroundShownAfterDisposal ==
  gif # NoGif =>
    \A k \in 1..(Len(rg.snaps) - 1) :
      BackgroundThenPart(gif.src, k)
        => ShowsInBox(gif.src, k, BackgroundColour(gif.src))

\* the same for the palettes whose length fits a byte
C9_HoldsForShortPalettes ==
  (gif # NoGif /\ Len(gif.src.Image) > 0
     /\ Len(gif.src.Image[1].Palette) < ByteRange) =>
    \A k \in 1..(Len(rg.snaps) - 1) :
      BackgroundThenPart(gif.src, k)
        => ShowsInBox(gif.src, k, BackgroundColour(gif.src))

\* the snapshot of frame k + 1 shows what roundGIF took for the background
C9_ShowsComputedBackground ==
  gif # NoGif =>
    \A k \in 1..(Len(rg.snaps) - 1) :
      BackgroundThenPart(gif.src, k) => ShowsInBox(gif.src, k, rg.bgColor)

\* C10: the output of roundGIF has as many frames as the source, the same
\* loop count and the same delays in the same order.
C10_FramesLoopAndDelaysKept ==
  rg.out = "rounded" =>
    /\ Len(rg.dst.Image) = Len(gif.src.Image)
    /\ StoredFrames = 1..Len(gif.src.Image)
    /\ rg.dst.LoopCount = gif.src.LoopCount
    /\ rg.dst.Delay = gif.src.Delay

\* a returned animation of two frames with different delays that loops twice
C10_Witness ==
  /\ rg.out = "rounded"
  /\ Len(gif.src.Image) = 2
  /\ gif.src.Delay[1] # gif.src.Delay[2]
  /\ gif.src.LoopCount = 2

----------------------------------------------------------------------------
(* Claims about roundCorners, resizeImage and the radius *)

\* the source decoded, has pixels, and a radius above half of its shorter
\* side was asked for
AboveHalfMin ==
  /\ sc # NoStatic
  /\ DecodesImage(sc.src) /\ PngEncodes(sc.src)
  /\ sc.radius > HalfMin(sc.src)

\* C11: radius clamp.  For every width and height, roundCorners with a
\* radius above min(width, height) / 2 returns what it returns for exactly
\* min(width, height) / 2; the same for roundGIF, which C11_GifRadiusClamped
\* states.
C11_ClampedRadiusSameOutput ==
  (AboveHalfMin /\ sc.round.called /\ sc.exact.called)
    => /\ sc.round.err = sc.exact.err
       /\ sc.round.data = sc.exact.data

\* the same, for the images that are at least as wide as high
C11_HoldsForWideImages ==
  (AboveHalfMin /\ sc.round.called /\ sc.exact.called
     /\ sc.src.w >= sc.src.h)
    => /\ sc.round.err = sc.exact.err
       /\ sc.round.data = sc.exact.data

\* roundGIF works with min(width, height) / 2 whenever more was asked for;
\* nothing after its prologue reads the radius that was asked for
C11_GifRadiusClamped ==
  (gif # NoGif /\ rg.pc # "start" /\ Len(gif.src.Image) > 0
     /\ gif.radius > Min(gif.src.Width, gif.src.Height) \div 2)
    => rg.radius = Min(gif.src.Width, gif.src.Height) \div 2

\* the radius roundCorners works with, utils.go lines 291-293
UsedRadius(img, radius) ==
  IF radius > img.h \div 2 THEN img.h \div 2 ELSE radius

\* the points of the image inside the rounded rectangle of that radius
InsidePoints(img, radius) ==
  { pt \in Points(img.w, img.h) :
      isPixelInRoundedRect(pt[1], pt[2], img.w, img.h,
                           UsedRadius(img, radius)) }

SizedExactly(r) ==
  (r.called /\ ~r.err /\ PngEncodes(sc.src)
     /\ sc.size >= 1 /\ sc.size <= MaxAvatarSize)
    => (r.data.w = sc.size /\ r.data.h = sc.size)

C14_HoldsForResizeImage == sc # NoStatic => SizedExactly(sc.resized)

\* avatarHandler does for the sources that are square
C14_HoldsForSquareSources ==
  (sc # NoStatic /\ sc.src.w = sc.src.h) => SizedExactly(sc.hresized)

----------------------------------------------------------------------------
(* Claims about the validators and the order of the handler's steps *)

\* an avatar response that carries a validator for a request with modifiers
ModifiedAvatarResponse ==
  /\ resp.kind = "avatar"
  /\ resp.status = 200
  /\ (resp.s # <<>> \/ resp.radius # <<>>)

C17_FailureLeavesCaches ==
  (sc # NoStatic /\ sc.last.called /\ sc.last.err)
    => /\ roundedCache = sc.last.roundedBefore
       /\ resizedCache = sc.last.resizedBefore
       /\ ~sc.last.hit

\* roundCorners decoded an image that png.Encode refused, when resizedCache
\* held an entry
C17_Witness ==
  /\ sc # NoStatic
  /\ sc.last.called /\ sc.last.err /\ sc.last.what = "round"
  /\ DecodesImage(sc.src)
  /\ resizedCache # EmptyCache

\* resizeImage decoded an image whose resize jpeg.Encode refused, when
\* roundedCache held an entry
C17_ResizeFailureReached ==
  /\ sc # NoStatic
  /\ sc.last.called /\ sc.last.err /\ sc.last.what = "resize"
  /\ DecodesImage(sc.src)
  /\ roundedCache # EmptyCache

\* C18: a request whose If-None-Match equals the validator of what it asks
\* for is answered 304 by the validation step, before transformCache is
\* consulted and before any resize or rounding: no transform has run for a
\* request that ends in 304.
C18_NotModifiedBeforeTransform ==
  (resp.kind = "avatar" /\ resp.status = 304)
    => (resp.ran = {} /\ ~resp.hit)

----------------------------------------------------------------------------
(* Claims about the background and the palette of roundGIF *)

\* roundGIF has made its compositor and drawn no frame yet
CompositorFresh ==
  gif # NoGif /\ rg.pc = "loop" /\ rg.i = 1 /\ rg.snaps = <<>>

\* C19: roundGIF initialises the compositor to the colour at the background
\* index whenever the index is one of the palette (index < palette length,
\* for every palette length from 1 to 256), and to transparent only when it
\* is not.
C19_CompositorStartsAtBackground ==
  CompositorFresh =>
    \A pt \in Points(gif.src.Width, gif.src.Height) :
      rg.compositor[pt] = BackgroundColour(gif.src)

\* the same for the palettes of fewer than 256 entries
C19_HoldsForShortPalettes ==
  (CompositorFresh /\ Len(gif.src.Image[1].Palette) < ByteRange) =>
    \A pt \in Points(gif.src.Width, gif.src.Height) :
      rg.compositor[pt] = BackgroundColour(gif.src)

\* the colours of the snapshot after masking: every pixel outside the
\* rounded rectangle is transparent
PostMaskColours(snap) ==
  { IF isPixelInRoundedRect(pt[1], pt[2], rg.width, rg.height, rg.radius)
    THEN snap[pt] ELSE Transparent : pt \in DOMAIN snap }

\* C20: for each frame, when the composited snapshot has at most 255 unique
\* colours after masking roundGIF builds an exact palette and does not
\* quantize; the quantizer runs only when that count exceeds 255.
C20_QuantizeOnlyAbove255 ==
  \A k \in 1..Len(rg.snaps) :
    rg.quantized[k]
      <=> (Cardinality(PostMaskColours(rg.snaps[k])) > UniqueLimit)

\* the same with the colours counted before masking
C20_HoldsBeforeMasking ==
  \A k \in 1..Len(rg.snaps) :
    rg.quantized[k] <=> (Cardinality(ColoursOf(rg.snaps[k])) > UniqueLimit)

----------------------------------------------------------------------------
(* Claims about the disposal of the frames *)

\* the frames roundGIF has been through without an error
Processed ==
  IF gif = NoGif \/ rg.out = "error" THEN {} ELSE 1..Len(rg.snaps)

\* the compositor as frame k left it for the next frame
CanvasAfter(k) ==
  IF k = Len(rg.snaps) THEN rg.compositor ELSE rg.before[k + 1]

\* C21: after roundGIF has processed a frame whose disposal is Previous the
\* compositor is what it was just before that frame was drawn, and the next
\* frame is drawn over that content, not over the disposed frame.
C21_PreviousRestoresCanvas ==
  \A k \in Processed :
    gif.src.Disposal[k] = DisposalPrevious =>
      /\ CanvasAfter(k) = rg.before[k]
      /\ (k + 1 \in Processed =>
            rg.snaps[k + 1] = DrawOver(rg.before[k], gif.src.Image[k + 1]))

\* a frame of disposal Previous has changed the canvas and the next frame
\* has been drawn
C21_Witness ==
  \E k \in Processed :
    /\ gif.src.Disposal[k] = DisposalPrevious
    /\ rg.snaps[k] # rg.before[k]
    /\ k + 1 \in Processed
    /\ rg.snaps[k + 1] # DrawOver(rg.snaps[k], gif.src.Image[k + 1])

\* C22: when roundGIF rounds, every frame of its output has the disposal
\* None, whatever the disposal of the source frame.
C22_OutputDisposalNone ==
  (gif # NoGif /\ rg.out = "rounded") =>
    \A k \in 1..Len(rg.dst.Disposal) : rg.dst.Disposal[k] = DisposalNone

\* an animation has been rounded whose frames have other disposals
C22_Witness ==
  /\ gif # NoGif /\ rg.out = "rounded"
  /\ Len(rg.dst.Disposal) = MaxFrames
  /\ \A k \in 1..Len(rg.dst.Disposal) :
        gif.src.Disposal[k] # DisposalNone /\ rg.dst.Disposal[k] = DisposalNone

----------------------------------------------------------------------------
(* Claims about the transparency step and the rounded rectangle *)

\* C23: while rounding a frame roundGIF fails with an error and returns no
\* GIF exactly when the palette of the frame has 256 entries already and
\* none of them has alpha 0; in every other case the palette of the frame
\* has an entry of alpha 0 after the step.
C23_ErrorIffFullAndOpaque ==
  (fn # NoStep /\ fn.op = "transparency" /\ fn.done) =>
    LET pal == fn.paletted.Palette
        full == Len(pal) = MaxPalette /\ \A k \in 1..Len(pal) : pal[k].a # 0
    IN  /\ (fn.out = "error") <=> full
        /\ fn.out = "error" => fn.frame = NilFrame
        /\ fn.out # "error" =>
              \E k \in 1..Len(fn.frame.Palette) : fn.frame.Palette[k].a = 0

\* the step has refused a palette of 256 opaque entries
C23_Witness ==
  /\ fn # NoStep /\ fn.op = "transparency" /\ fn.done
  /\ fn.out = "error"
  /\ Len(fn.paletted.Palette) = MaxPalette

\* the step has given a transparent entry to a palette of 255 opaque entries
C23_AppendReached ==
  /\ fn # NoStep /\ fn.op = "transparency" /\ fn.done
  /\ fn.out = "frame"
  /\ Len(fn.paletted.Palette) = UniqueLimit
  /\ Len(fn.frame.Palette) = MaxPalette

\* in roundGIF itself the step gives every stored frame an entry of alpha 0
C23_StoredPalettesHaveTransparent ==
  \A k \in StoredFrames :
    \E j \in 1..Len(rg.dst.Image[k].Palette) :
      rg.dst.Image[k].Palette[j].a = 0

\* the centres of the four corner circles
CornerCentres(width, height, r) ==
  << <<r, r>>, <<width - r - 1, r>>, <<r, height - r - 1>>,
     <<width - r - 1, height - r - 1>> >>

\* pixel (x, y) lies in the k-th of the four r x r corner squares
InCornerSquare(k, x, y, width, height, r) ==
  /\ IF k \in {1, 3} THEN x < r ELSE x >= width - r
  /\ IF k \in {1, 2} THEN y < r ELSE y >= height - r

SquaredDistance(x, y, c) == (x - c[1]) * (x - c[1]) + (y - c[2]) * (y - c[2])

\* C24: for r <= min(width, height)/2, isPixelInRoundedRect is false only
\* for the pixels that lie in one of the four r x r corner squares and whose
\* squared distance to the centre of that corner exceeds r*r; every pixel
\* outside the four corner squares is included.
C24_ExcludedOnlyInCorners ==
  (fn # NoStep /\ fn.op = "inside" /\ fn.done) =>
    (~fn.res <=>
       \E k \in 1..4 :
         /\ InCornerSquare(k, fn.x, fn.y, fn.width, fn.height, fn.radius)
         /\ SquaredDistance(fn.x, fn.y,
               CornerCentres(fn.width, fn.height, fn.radius)[k])
              > fn.radius * fn.radius)

\* a pixel of a corner square has been excluded
C24_Witness ==
  /\ fn # NoStep /\ fn.op = "inside" /\ fn.done
  /\ ~fn.res
  /\ fn.radius >= 2
  /\ fn.x >= fn.width - fn.radius /\ fn.y >= fn.height - fn.radius

----------------------------------------------------------------------------
(* Claims about failed uploads and the validator of banners *)

\* an upload has ended in an error after its token was accepted
UploadFailed == resp.kind = "upload" /\ resp.status \in {400, 500}

\* C28: when uploadPfpHandler ends in an error response after the token was
\* accepted, the avatar file the user had stored before is still there, as
\* it was: a failed upload leaves the stored avatar unchanged.
C28_FailedUploadKeepsAvatar ==
  UploadFailed =>
    \A e \in DOMAIN resp.before :
      resp.before[e].present => files[e] = resp.before[e]

\* a failed upload of a user who had no avatar leaves no file either
C28_FailedUploadStoresNothing ==
  (UploadFailed /\ \A e \in DOMAIN resp.before : ~resp.before[e].present) =>
    \A e \in DOMAIN files : ~files[e].present

\* C29: for a stored banner that has not changed bannerHandler sends the
\* same ETag on every request, whatever the time of the request.
C29_BannerValidatorSameAtAnyTime ==
  (resp.kind = "banner" /\ resp.status = 200 /\ resp.repeat) =>
    resp.etag = resp.expect

\* the same when the clock has not moved since the first request
C29_HoldsWithinOneSecond ==
  (resp.kind = "banner" /\ resp.status = 200 /\ resp.repeat /\ nticks = 0) =>
    resp.etag = resp.expect

----------------------------------------------------------------------------
(* Claims about the room for the transparent colour *)

\* the frames that took the exact-palette path
ExactFrames ==
  IF gif = NoGif THEN {}
  ELSE { k \in 1..Len(rg.snaps) : ~rg.quantized[k] }

\* C30: on the exact-palette path of roundGIF the failure 'no room for
\* transparent color' cannot occur: the palette has at most 255 entries
\* before the transparency step and at most 256 after it, also when the
\* frame has exactly 255 colours none of which is transparent.
C30_ExactPathHasRoom ==
  \A k \in ExactFrames :
    /\ Cardinality(ColoursOf(rg.snaps[k])) <= MaxPalette - 1
    /\ ~(rg.out = "error" /\ k = Len(rg.snaps))
    /\ k \in StoredFrames
    /\ Len(rg.dst.Image[k].Palette) <= MaxPalette

\* a frame of exactly 255 opaque colours has been stored with 256 entries
C30_Witness ==
  \E k \in ExactFrames :
    /\ Cardinality(ColoursOf(rg.snaps[k])) = UniqueLimit
    /\ \A c \in ColoursOf(rg.snaps[k]) : c.a # 0
    /\ k \in StoredFrames
    /\ Len(rg.dst.Image[k].Palette) = MaxPalette

----------------------------------------------------------------------------
(* Claims about concurrent requests *)

\* two outputs are the same transform of the same source (the order of the
\* palette entries of a GIF, which Go does not fix, left aside)
SameOutput(a, b) ==
  /\ a.src = b.src /\ a.complete = b.complete /\ a.dim = b.dim
  /\ Len(a.ops) = Len(b.ops)
  /\ \A i \in 1..Len(a.ops) :
        a.ops[i][1] = b.ops[i][1] /\ a.ops[i][2] = b.ops[i][2]

\* what a request alone computes for the file and the modifiers of l
LoneOutput(l) ==
  LET src == IF l.metaErr THEN defaultImageContent
             ELSE Bytes(l.sig[4].img, l.sig[4].complete)
  IN  IF l.path = "gif"
      THEN GifTransform(src, l.s, l.radius, 1).data
      ELSE StaticTransform(src, "image/jpeg", l.s, l.radius, EmptyCache,
                           0).data

\* no upload of the user has been accepted so far
NoUploadYet == nextImg = 2

\* worker p takes the step from position a to position b
Steps(p, a, b) == pc[p] = a /\ pc'[p] = b

\* what a request that missed together with another one does at each step
RacedSteps(p) ==
  /\ Steps(p, "av_transform", "av_put") =>
        SameOutput(loc'[p].imageData, LoneOutput(loc[p]))
  /\ Steps(p, "av_put", "av_respond") =>
        /\ loc[p].cacheKey \in DOMAIN transformCache'
        /\ transformCache'[loc[p].cacheKey].Data = loc[p].imageData
  /\ (Steps(p, "av_respond", "idle") /\ resp'.status = 200) =>
        SameOutput(resp'.body, LoneOutput(loc[p]))

\* C27: when two requests miss concurrently on the same key, both compute
\* the transform and both store their result, the later put overwriting the
\* earlier, and each caller receives the correct output for the key
\* whichever put comes last.
C27_ConcurrentMissesBothCorrect ==
  [][\A p \in Workers : loc[p].raced => RacedSteps(p)]_vars

\* the same as long as no upload of the user has been accepted
C27_HoldsWithoutUploads ==
  [][\A p \in Workers : (loc[p].raced /\ NoUploadYet) => RacedSteps(p)]_vars

\* one of two requests that missed together has been answered, the other has
\* stored its result over the first's and is about to answer
C27_BothPutsReached ==
  /\ resp.kind = "avatar" /\ resp.status = 200 /\ resp.raced /\ ~resp.hit
  /\ NoUploadYet
  /\ \E p \in Workers :
       /\ pc[p] = "av_respond" /\ loc[p].raced
       /\ Quote(loc[p].cacheKey) = resp.etag
       /\ loc[p].cacheKey \in DOMAIN transformCache
       /\ transformCache[loc[p].cacheKey].Data = loc[p].imageData
       /\ loc[p].imageData # resp.body

----------------------------------------------------------------------------
(* Claims about cacheMutex *)

\* worker p holds cacheMutex, shared or exclusively
Holds(p) == p \in lk.readers \/ lk.writer = p

\* C25: cacheMutex is never held while an image is decoded, resized, masked,
\* quantized or encoded: an acquisition covers only a map lookup (with the
\* age test of the entry found), a map insert or a map replacement, and the
\* mutex is released on every path, the hit and the expired entry included.
C25_MutexNotHeldWhileWorking ==
  lk # NoLocks =>
    \A p \in Workers :
      /\ (Running(p) /\ Holds(p)) =>
            Cur(p).ins \in {"read", "fresh", "write", "clear",
                            "RUnlock", "Unlock"}
      /\ ~Running(p) => ~Holds(p)

\* a worker is at work on an image while another holds the mutex for its
\* map insert, and the third path (an expired entry) has returned earlier
C25_Witness ==
  /\ lk # NoLocks
  /\ \E p, q \in Workers :
       /\ Running(p) /\ Cur(p).ins = "work" /\ ~Holds(p)
       /\ lk.path[p] = "avatarRoundExpired" /\ lk.at[p] > 5
       /\ Running(q) /\ Cur(q).ins = "write" /\ lk.writer = q

\* C26: every read of roundedCache, resizedCache and transformCache happens
\* while cacheMutex is held, every insert and every replacement while it is
\* held exclusively; no two writers, and no reader and writer, are in a
\* cache map at the same time.
C26_MapAccessUnderMutex ==
  lk # NoLocks =>
    /\ \A p \in Workers :
         lk.mid[p] =>
           IF Cur(p).ins = "read" THEN Holds(p) ELSE lk.writer = p
    /\ \A p, q \in Workers :
         (p # q /\ lk.mid[p] /\ lk.mid[q]) =>
           (Cur(p).ins = "read" /\ Cur(q).ins = "read")

\* a worker is replacing transformCache while another waits to read it
C26_Witness ==
  /\ lk # NoLocks
  /\ \E p, q \in Workers :
       /\ p # q
       /\ lk.mid[p] /\ Cur(p).ins = "clear"
       /\ Running(q) /\ Cur(q).ins = "RLock"

\* two workers are in cache maps at the same time, both reading
C26_SharedReadsReached ==
  /\ lk # NoLocks
  /\ \E p, q \in Workers : p # q /\ lk.mid[p] /\ lk.mid[q]

====
